---- MODULE Spec2Model ----
(***************************************************************************)
(* GOES-R fixed-grid coordinate engine of wx-scripts.                      *)
(*                                                                         *)
(*   src/goes/grids.py               EventQuad, get_GOESR_grid,            *)
(*                                   quads_from_corner_lookup, count       *)
(*   src/scripts/goes/proj_utils.py  scan_to_geod, geod_to_scan            *)
(*                                                                         *)
(* Each component is a pure, synchronous function (or a small class), so   *)
(* each has its own specification: the initial state draws the call's      *)
(* inputs, the actions apply the code.                                     *)
(***************************************************************************)
EXTENDS Integers, Sequences, FiniteSets, TLC

VARIABLES
    \* ---- count() and EventQuad (grids.py) ----
    listOfCorners,   \* the argument of count(): a sequence of 4x2 float64 arrays
    unique_quads,    \* the list count() returned: EventQuad objects
    cnt_pc,          \* "input": count() not yet called; "counted": it returned
    cnt_calls,       \* EventQuad.inc_count / dec_count calls made since
    \* ---- the fixed-grid catalog and get_GOESR_grid (grids.py) ----
    catalog,         \* the module-level dicts, by global name
    heap,            \* the nested image-bounds dicts, by object identity
    asserts_on,      \* Python's __debug__: FALSE when run with -O
    g_req,           \* the arguments of the last get_GOESR_grid call
    g_ret,           \* the dict it returned (<<>> when it raised)
    g_err,           \* the exception it raised (NoErr when it returned)
    g_pc,            \* "idle" before the first call, "called" when a call has
                     \* returned, "written" when the caller changed the dict since
    g_prev,          \* <<dict, exception>> of the call before the last when it had
                     \* the same arguments, else <<>>
    \* ---- quads_from_corner_lookup (grids.py) ----
    g_lons,          \* lookup table: longitudes of the cell centres, [i][j]
    g_lats,          \* lookup table: latitudes of the cell centres, [i][j]
    corner_pts,      \* lookup table: corner offsets, [i][j][corner][coord]
    p_lon,           \* event longitudes
    p_lat,           \* event latitudes
    q_args,          \* nadir_lon, inflate, extrapolate of the call
    qhull_diag,      \* how Qhull splits a square lattice cell into triangles
    nn_tie,          \* which of several nearest points the k-d tree returns
    quads,           \* the array the last call returned
    q_prev,          \* the array the call before it returned
    q_calls,         \* calls made
    q_err,           \* the exception the last call raised, "none" if it returned
    \* ---- scan_to_geod and geod_to_scan (proj_utils.py) ----
    t_fn,            \* the transform the caller calls first
    t_arg,           \* its two float arguments
    t_ret,           \* the pair it returned (<<>> before it returns)
    t_back,          \* what scan_to_geod returned for the pair in t_ret
    t_exc,           \* the exception the last call raised, "none" if it returned
    t_pc,            \* "start", "returned", "back"
    \* ---- the utilities under src/scripts ----
    s_fn,            \* the function the caller calls
    s_arg,           \* its arguments
    s_ret,           \* what it returned or raised (<<>> before the call)
    s_pc             \* "start", "done"

varsCount == <<listOfCorners, unique_quads, cnt_pc, cnt_calls>>
varsGrid  == <<catalog, heap, asserts_on, g_req, g_ret, g_err, g_pc, g_prev>>

varsQuads == <<g_lons, g_lats, corner_pts, p_lon, p_lat, q_args, qhull_diag, nn_tie,
               quads, q_prev, q_calls, q_err>>
varsProj  == <<t_fn, t_arg, t_ret, t_back, t_exc, t_pc>>
varsScripts == <<s_fn, s_arg, s_ret, s_pc>>

vars == <<listOfCorners, unique_quads, cnt_pc, cnt_calls,
          catalog, heap, asserts_on, g_req, g_ret, g_err, g_pc, g_prev,
          g_lons, g_lats, corner_pts, p_lon, p_lat, q_args, qhull_diag, nn_tie,
          quads, q_prev, q_calls, q_err,
          t_fn, t_arg, t_ret, t_back, t_exc, t_pc,
          s_fn, s_arg, s_ret, s_pc>>

\* what a step of one component leaves alone: the other components
FrameCount == UNCHANGED <<varsGrid, varsQuads, varsProj, varsScripts>>
FrameGrid  == UNCHANGED <<varsCount, varsQuads, varsProj, varsScripts>>
FrameQuads == UNCHANGED <<varsCount, varsGrid, varsProj, varsScripts>>
FrameProj  == UNCHANGED <<varsCount, varsGrid, varsQuads, varsScripts>>
FrameScripts == UNCHANGED <<varsCount, varsGrid, varsQuads, varsProj>>

(***************************************************************************)
(* Generic helpers.                                                        *)
(***************************************************************************)
Range(s) == {s[i] : i \in 1..Len(s)}

RECURSIVE SumSeq(_)
SumSeq(s) == IF s = <<>> THEN 0 ELSE Head(s) + SumSeq(Tail(s))

\* All orderings of a finite set, as sequences without repetition.
Orderings(S) ==
    {p \in [1..Cardinality(S) -> S] : \A i, j \in 1..Cardinality(S) : p[i] = p[j] => i = j}

(***************************************************************************)
(* float64 values and numpy's ndarray.tostring().                          *)
(*                                                                         *)
(* A float64 is its three IEEE-754 fields: sign bit s, biased exponent e   *)
(* (11 bits) and the top four bits m of the fraction (the other 48         *)
(* fraction bits are zero in every sample value).  tostring() writes the   *)
(* eight little-endian bytes of each element, row-major.                   *)
(***************************************************************************)
F64(s, e, m) == [s |-> s, e |-> e, m |-> m]

PZero  == F64(0, 0, 0)         \*  0.0
NZero  == F64(1, 0, 0)         \* -0.0
POne   == F64(0, 1023, 0)      \*  1.0
QNaN   == F64(0, 2047, 8)      \*  nan

SampleFloats == {PZero, NZero, POne, QNaN}

IsNaN64(f) == f.e = 2047 /\ f.m # 0

\* numeric (==) comparison of two float64: -0.0 == 0.0, nan != nan
NumEq(f, g) ==
    /\ ~IsNaN64(f)
    /\ ~IsNaN64(g)
    /\ \/ f = g
       \/ (f.e = 0 /\ f.m = 0 /\ g.e = 0 /\ g.m = 0)

\* the 8 bytes of one float64, least significant first
F64Bytes(f) ==
    <<0, 0, 0, 0, 0, 0, (f.e % 16) * 16 + f.m, f.s * 128 + (f.e \div 16)>>

\* a 4x2 array: a sequence of 4 rows of 2 floats
RECURSIVE FlatBytes(_)
FlatBytes(fs) == IF fs = <<>> THEN <<>> ELSE F64Bytes(Head(fs)) \o FlatBytes(Tail(fs))

\* the numeric canonical form of an array (what a value-based key would use)
tostringByValue(arr) ==
    FlatBytes([k \in 1..8 |->
        LET f == arr[((k - 1) \div 2) + 1][((k - 1) % 2) + 1]
        IN  IF f.e = 0 /\ f.m = 0 THEN PZero ELSE f])

\* x.tostring() of grids.py line 258: the raw bytes, C order
tostring(arr) ==
    FlatBytes([k \in 1..8 |-> arr[((k - 1) \div 2) + 1][((k - 1) % 2) + 1]])

\* sample corner arrays: one varying element, the rest fixed
MkQuad(f) == << <<f, POne>>, <<PZero, POne>>, <<POne, PZero>>, <<PZero, PZero>> >>

SampleQuads == {MkQuad(f) : f \in SampleFloats}

(***************************************************************************)
(* EventQuad (grids.py lines 10-26).                                       *)
(***************************************************************************)
DigitStr(d) ==
    CASE d = 0 -> "0" [] d = 1 -> "1" [] d = 2 -> "2" [] d = 3 -> "3" [] d = 4 -> "4"
      [] d = 5 -> "5" [] d = 6 -> "6" [] d = 7 -> "7" [] d = 8 -> "8" [] d = 9 -> "9"

\* str(n) for n >= 0
RECURSIVE Str(_)
Str(n) == IF n < 10 THEN DigitStr(n) ELSE Str(n \div 10) \o DigitStr(n % 10)

\* s.zfill(w)
RECURSIVE ZFill(_, _)
ZFill(s, w) == IF Len(s) >= w THEN s ELSE ZFill("0" \o s, w)

IdWidth == 6

\* a constructor that ignores the count it is given and starts every object at 0
EventQuadFromZero(id, corners, count) ==
    [corners |-> corners, id |-> ZFill(Str(id), IdWidth), count |-> 0]

\* EventQuad.__init__
EventQuad(id, corners, count) ==
    [corners |-> corners, id |-> ZFill(Str(id), IdWidth), count |-> count]

(***************************************************************************)
(* count() (grids.py lines 247-272).                                       *)
(***************************************************************************)
MaxEvents == 4      \* longest input list
MaxCalls  == 1      \* inc_count / dec_count calls explored after count()

\* a Counter that counts presence, not occurrences
CounterPresence(keys, k) == IF \E i \in 1..Len(keys) : keys[i] = k THEN 1 ELSE 0

\* collections.Counter(keys)[k]
Counter(keys, k) == Cardinality({i \in 1..Len(keys) : keys[i] = k})

\* line 258: the key of each input array
Keys(l) == [i \in 1..Len(l) |-> tostring(l[i])]

\* lines 255-272 for one iteration order `order` of the set of keys
CountResult(l, order) ==
    LET keys == Keys(l)
    IN  [n \in 1..Len(order) |-> EventQuad(n, order[n], Counter(keys, order[n]))]

InputLists == UNION {[1..n -> SampleQuads] : n \in 0..MaxEvents}

InitCount ==
    /\ listOfCorners \in InputLists
    /\ unique_quads = <<>>
    /\ cnt_pc = "input"
    /\ cnt_calls = 0

\* no call of count() in this behaviour
IdleCount ==
    /\ listOfCorners = <<>>
    /\ unique_quads = <<>>
    /\ cnt_pc = "input"
    /\ cnt_calls = 0

\* count(listOfCorners): list(set(...)) iterates the set in an order the
\* language does not fix (bytes hashes are salted per process)
Count ==
    /\ cnt_pc = "input"
    /\ \E order \in Orderings(Range(Keys(listOfCorners))) :
           unique_quads' = CountResult(listOfCorners, order)
    /\ cnt_pc' = "counted"
    /\ UNCHANGED <<listOfCorners, cnt_calls>>
    /\ FrameCount

\* q.inc_count() on one of the returned objects
IncCount(i) ==
    /\ cnt_pc = "counted"
    /\ cnt_calls < MaxCalls
    /\ unique_quads' = [unique_quads EXCEPT ![i].count = @ + 1]
    /\ cnt_calls' = cnt_calls + 1
    /\ UNCHANGED <<listOfCorners, cnt_pc>>
    /\ FrameCount

\* q.dec_count() on one of the returned objects
DecCount(i) ==
    /\ cnt_pc = "counted"
    /\ cnt_calls < MaxCalls
    /\ unique_quads' = [unique_quads EXCEPT ![i].count = @ - 1]
    /\ cnt_calls' = cnt_calls + 1
    /\ UNCHANGED <<listOfCorners, cnt_pc>>
    /\ FrameCount

(***************************************************************************)
(* The fixed-grid catalog (grids.py lines 34-125).                         *)
(*                                                                         *)
(* Angles are kept in microradians, the unit in which every literal of the *)
(* tables is a whole number (0.151872 rad = 151872, 56e-6 rad = 56), and   *)
(* nadir longitudes in tenths of a degree (-89.5 = -895).  A dict is a     *)
(* function from its keys; a nested dict is held by reference, as an       *)
(* identity into `heap`, because dict.copy() is a shallow copy.            *)
(***************************************************************************)
Ref(id) == [ref |-> id]

\* d[k] = v
DictSet(d, k, v) == [x \in DOMAIN d \cup {k} |-> IF x = k THEN v ELSE d[x]]

\* d.update(e)
DictUpdate(d, e) == [x \in DOMAIN d \cup DOMAIN e |-> IF x \in DOMAIN e THEN e[x] ELSE d[x]]

\* d.copy(): a new dict with the same keys and the same (shared) values
DictCopy(d) == [x \in DOMAIN d |-> d[x]]

\* the table with the west and test longitudes exchanged
goesr_nadir_lonSwapped == [east |-> -750, west |-> -895, test |-> -1370]

goesr_nadir_lon == [east |-> -750, west |-> -1370, test |-> -895]

\* the full-disk table without its center keys
goesr_fullNoCenter == [span_EW |-> 151872 * 2, span_NS |-> 151872 * 2]

goesr_full ==
    [span_EW |-> 151872 * 2, span_NS |-> 151872 * 2, center_EW |-> 0, center_NS |-> 0]

goesr_conus == [span_EW |-> 140000, span_NS |-> 84000]

goesr_meso == [span_EW |-> 28000, span_NS |-> 28000]

\* the nested dicts created at import, in creation order
YBoundsEastFull  == 1
XBoundsEastFull  == 2
YBoundsEastConus == 3
XBoundsEastConus == 4

ImportHeap ==
    (YBoundsEastFull  :> [n |-> 151872, s |-> -151872]) @@
    (XBoundsEastFull  :> [w |-> -151872, e |-> 151872]) @@
    (YBoundsEastConus :> [n |-> 128240, s |-> 44240]) @@
    (XBoundsEastConus :> [w |-> -101360, e |-> 38640])

goeseast_full ==
    DictSet(DictSet(DictCopy(goesr_full), "y_img_bounds", Ref(YBoundsEastFull)),
            "x_img_bounds", Ref(XBoundsEastFull))

\* the west full disk copied from the east one, image bounds included
goeswest_fullFromEast == DictCopy(goeseast_full)

goeswest_full == DictCopy(goesr_full)
goestest_full == DictCopy(goesr_full)

goeseast_meso == DictCopy(goesr_meso)
goeswest_meso == DictCopy(goesr_meso)
goestest_meso == DictCopy(goesr_meso)

\* the east CONUS table with the center of the west one
goeseast_conusCenteredAsWest ==
    DictSet(DictSet(DictUpdate(DictCopy(goesr_conus),
                               [center_EW |-> 0, center_NS |-> 86240]),
                    "y_img_bounds", Ref(YBoundsEastConus)),
            "x_img_bounds", Ref(XBoundsEastConus))

goeseast_conus ==
    DictSet(DictSet(DictUpdate(DictCopy(goesr_conus),
                               [center_EW |-> -31360, center_NS |-> 86240]),
                    "y_img_bounds", Ref(YBoundsEastConus)),
            "x_img_bounds", Ref(XBoundsEastConus))

goeswest_conus ==
    DictUpdate(DictCopy(goesr_conus), [center_EW |-> 0, center_NS |-> 86240])

goestest_conus ==
    DictUpdate(DictCopy(goesr_conus), [center_EW |-> -5040, center_NS |-> 84560])

\* Resolutions in km -> microradians per pixel
goesr_resolutions ==
    ("0.5" :> 14) @@ ("1.0" :> 28) @@ ("2.0" :> 56) @@ ("4.0" :> 112) @@
    ("8.0" :> 224) @@ ("10.0" :> 280) @@ ("100.0" :> 2800)

\* the module globals after import
ImportGlobals ==
    [goesr_nadir_lon |-> goesr_nadir_lon,
     goesr_full |-> goesr_full, goesr_conus |-> goesr_conus, goesr_meso |-> goesr_meso,
     goeseast_full |-> goeseast_full, goeswest_full |-> goeswest_full,
     goestest_full |-> goestest_full,
     goeseast_meso |-> goeseast_meso, goeswest_meso |-> goeswest_meso,
     goestest_meso |-> goestest_meso,
     goeseast_conus |-> goeseast_conus, goeswest_conus |-> goeswest_conus,
     goestest_conus |-> goestest_conus,
     goesr_resolutions |-> goesr_resolutions]

(***************************************************************************)
(* get_GOESR_grid (grids.py lines 148-171).                                *)
(***************************************************************************)
Positions == {"east", "west", "test"}
Views     == {"full", "conus", "meso"}

\* arguments tried: the valid ones and one invalid value per axis
ArgPositions   == Positions \cup {"north"}
ArgViews       == Views \cup {"global"}
ArgResolutions == DOMAIN goesr_resolutions \cup {"3.0"}

NoErr == [type |-> "none", args |-> <<>>, line |-> 0]
Err(type, args, line) == [type |-> type, args |-> args, line |-> line]

\* int(num / den) for a positive divisor: truncation toward zero.  The
\* quotients of the tables are taken in float64; for all 63 span/resolution
\* pairs the float64 quotient is the exact one or exceeds it by a few ulp,
\* never less, so truncating it gives the truncated exact quotient.
PyIntRound(num, den) ==
    IF num >= 0 THEN (2 * num + den) \div (2 * den) ELSE -((-2 * num + den) \div (2 * den))

PyInt(num, den) ==
    IF num >= 0 THEN num \div den ELSE -((-num) \div den)

\* lines 161-163 without the resolution check
FirstFailingAssertNoRes(position, view, resolution, globs) ==
    IF position \notin {"east", "west", "test"} THEN 161
    ELSE IF view \notin {"full", "conus", "meso"} THEN 162
    ELSE 0

\* lines 161-163: the line of the first assert that fails, 0 when all pass
FirstFailingAssert(position, view, resolution, globs) ==
    IF position \notin {"east", "west", "test"} THEN 161
    ELSE IF view \notin {"full", "conus", "meso"} THEN 162
    ELSE IF resolution \notin DOMAIN globs.goesr_resolutions THEN 163
    ELSE 0

\* 'goes'+position+"_"+view
GlobalName(position, view) == "goes" \o position \o "_" \o view

\* line 165 with the copy left out: view is the module-level dict itself
CopyOfGlobalAliased(globs, name) == [shared |-> TRUE, dict |-> globs[name]]

\* line 165, globals()[name].copy(): view is a new dict, not the global one
CopyOfGlobal(globs, name) == [shared |-> FALSE, dict |-> DictCopy(globs[name])]

\* lines 165-171, all lookups succeeding
BuildView(position, view, resolution, globs) ==
    LET v0 == CopyOfGlobal(globs, GlobalName(position, view)).dict
        v1 == DictSet(v0, "resolution", globs.goesr_resolutions[resolution])
        v2 == DictSet(v1, "pixels_EW", PyInt(v1["span_EW"], v1["resolution"]))
        v3 == DictSet(v2, "pixels_NS", PyInt(v2["span_NS"], v2["resolution"]))
    IN  DictSet(v3, "nadir_lon", globs.goesr_nadir_lon[position])

\* the module globals after lines 165-171: the four item assignments land in
\* the dict that `view` is bound to
GlobalsAfter(position, view, resolution, globs) ==
    IF CopyOfGlobal(globs, GlobalName(position, view)).shared
    THEN [globs EXCEPT ![GlobalName(position, view)] =
                           BuildView(position, view, resolution, globs)]
    ELSE globs

\* the outcome of get_GOESR_grid(position, view, resolution):
\* <<dict, exception, globals after the call>>
get_GOESR_grid(position, view, resolution, globs, debug) ==
    LET failed == FirstFailingAssert(position, view, resolution, globs)
    IN  IF debug /\ failed # 0
        THEN <<(<<>>), Err("AssertionError", <<>>, failed), globs>>
        ELSE IF GlobalName(position, view) \notin DOMAIN globs
        THEN <<(<<>>), Err("KeyError", <<GlobalName(position, view)>>, 165), globs>>
        ELSE IF resolution \notin DOMAIN globs.goesr_resolutions
        THEN <<(<<>>), Err("KeyError", <<resolution>>, 166), globs>>
        ELSE IF position \notin DOMAIN globs.goesr_nadir_lon
        THEN <<(<<>>), Err("KeyError", <<position>>, 169), globs>>
        ELSE <<BuildView(position, view, resolution, globs), NoErr,
               GlobalsAfter(position, view, resolution, globs)>>

DefaultRequest == [position |-> "east", view |-> "full", resolution |-> "2.0"]

InitGrid ==
    /\ catalog = ImportGlobals
    /\ heap = ImportHeap
    /\ asserts_on \in BOOLEAN
    /\ g_req = DefaultRequest
    /\ g_ret = <<>>
    /\ g_err = NoErr
    /\ g_pc = "idle"
    /\ g_prev = <<>>

\* no call of get_GOESR_grid in this behaviour
IdleGrid ==
    /\ catalog = ImportGlobals
    /\ heap = ImportHeap
    /\ asserts_on = TRUE
    /\ g_req = DefaultRequest
    /\ g_ret = <<>>
    /\ g_err = NoErr
    /\ g_pc = "idle"
    /\ g_prev = <<>>

GetGrid(position, view, resolution) ==
    LET out == get_GOESR_grid(position, view, resolution, catalog, asserts_on)
    IN  /\ g_req' = [position |-> position, view |-> view, resolution |-> resolution]
        /\ g_ret' = out[1]
        /\ g_err' = out[2]
        /\ g_pc' = "called"
        /\ g_prev' = (IF g_pc = "called" /\ g_req' = g_req THEN <<g_ret, g_err>> ELSE <<>>)
        /\ catalog' = out[3]
        /\ UNCHANGED <<heap, asserts_on>>
        /\ FrameGrid

\* the keys of the returned dict a caller assigns through
CallerKeys == {"span_EW", "y_img_bounds", "x_img_bounds"}

\* the caller of get_GOESR_grid changes the dict it was handed, once:
\* view[key] = 0.0 for a number, view[key]['n'] = 0.0 or view[key]['w'] = 0.0
\* for image bounds.  The image bounds of the returned dict are the dict
\* objects created at import (lines 67, 72, 91, 96): .copy() on line 165 is
\* shallow and copies the references to them.
CallerWrites(key) ==
    /\ g_pc = "called"
    /\ g_err = NoErr
    /\ key \in DOMAIN g_ret
    /\ heap = ImportHeap          \* the first write to image bounds, not a later one
    /\ IF key = "y_img_bounds"
       THEN heap' = [heap EXCEPT ![g_ret[key].ref].n = 0] /\ g_ret' = g_ret
       ELSE IF key = "x_img_bounds"
       THEN heap' = [heap EXCEPT ![g_ret[key].ref].w = 0] /\ g_ret' = g_ret
       ELSE heap' = heap /\ g_ret' = DictSet(g_ret, key, 0)
    /\ g_pc' = "written"
    /\ UNCHANGED <<catalog, asserts_on, g_req, g_err, g_prev>>
    /\ FrameGrid

(***************************************************************************)
(* quads_from_corner_lookup (grids.py lines 196-243).                      *)
(*                                                                         *)
(* Scan angles are whole microradians (the lookup table is stored as       *)
(* scaled integers, lines 188-190).  A float is Num(v) or NaN.  The lookup *)
(* table is a LutN x LutN lattice of cell centres, Cell apart, and every   *)
(* corner offset is a multiple of Cell, so that linear interpolation at a  *)
(* whole point is exact.                                                   *)
(***************************************************************************)
LutN   == 2      \* lattice points per side of the lookup table
MaxPts == 2      \* longest event list
Cell   == 4      \* lattice spacing of the sample lookup tables

Num(v) == [k |-> "num", v |-> v]
NaN    == [k |-> "nan", v |-> 0]

IsNaN(a) == a.k = "nan"                       \* np.isnan
FAdd(a, b) == IF IsNaN(a) \/ IsNaN(b) THEN NaN ELSE Num(a.v + b.v)
FMul(a, b) == IF IsNaN(a) \/ IsNaN(b) THEN NaN ELSE Num(a.v * b.v)

LutIdx == 1..LutN

\* a[i][j] -> the flat index of a.flatten()
Flat(i, j) == (i - 1) * LutN + j
FlatRow(f) == ((f - 1) \div LutN) + 1
FlatCol(f) == ((f - 1) % LutN) + 1

\* line 205 as an in-place shift: g_lons += nadir_lon
ShiftLonsInPlace(lons, nadir_lon) ==
    LET shifted == [i \in LutIdx |-> [j \in LutIdx |-> lons[i][j] + nadir_lon]]
    IN  [lon_shift |-> shifted, g_lons |-> shifted]

\* line 205: lon_shift = g_lons + nadir_lon, a new array; g_lons keeps its values
ShiftLons(lons, nadir_lon) ==
    [lon_shift |-> [i \in LutIdx |-> [j \in LutIdx |-> lons[i][j] + nadir_lon]],
     g_lons    |-> lons]

\* line 207 with the events taken last to first
PixelLocReversed(lon, lat) ==
    [e \in 1..Len(lon) |-> <<lon[Len(lon) + 1 - e], lat[Len(lon) + 1 - e]>>]

\* line 207: np.vstack((p_lon, p_lat)).T, one (lon, lat) row per event
PixelLoc(lon, lat) == [e \in 1..Len(lon) |-> <<lon[e], lat[e]>>]

\* the lattice cells (by lower-left index) whose closed square holds point p
CellsHolding(xs, ys, p) ==
    {c \in (1..(LutN - 1)) \X (1..(LutN - 1)) :
        /\ xs[c[1]][c[2]] <= p[1] /\ p[1] <= xs[c[1]][c[2] + 1]
        /\ ys[c[1]][c[2]] <= p[2] /\ p[2] <= ys[c[1] + 1][c[2]]}

\* the constructor failing with ValueError instead
DelaunayErrorAsValueError(xs, ys) ==
    IF \A g, h \in 2..(LutN * LutN) :
           (xs[FlatRow(g)][FlatCol(g)] - xs[1][1]) * (ys[FlatRow(h)][FlatCol(h)] - ys[1][1])
         = (xs[FlatRow(h)][FlatCol(h)] - xs[1][1]) * (ys[FlatRow(g)][FlatCol(g)] - ys[1][1])
    THEN "ValueError"
    ELSE "none"

\* LinearNDInterpolator((xs, ys), vals), the constructor: it triangulates
\* the points with Qhull, which raises QhullError when they do not span the
\* plane (all on one line, or all the same point: the initial simplex is
\* flat); "none" when the triangulation exists.  The points are on one line
\* exactly when their offsets from the first point are pairwise parallel.
DelaunayError(xs, ys) ==
    IF \A g, h \in 2..(LutN * LutN) :
           (xs[FlatRow(g)][FlatCol(g)] - xs[1][1]) * (ys[FlatRow(h)][FlatCol(h)] - ys[1][1])
         = (xs[FlatRow(h)][FlatCol(h)] - xs[1][1]) * (ys[FlatRow(g)][FlatCol(g)] - ys[1][1])
    THEN "QhullError"
    ELSE "none"

\* LinearNDInterpolator((xs, ys), vals)(p): barycentric interpolation in the
\* Delaunay triangle holding p, nan outside the convex hull.  Each lattice
\* square has four cocircular corners, so either diagonal is a Delaunay
\* triangulation; `diag` is the one Qhull picked.
LinearND(xs, ys, vals, diag, p) ==
    LET cells == CellsHolding(xs, ys, p)
    IN  IF cells = {} THEN NaN
        ELSE
          LET c   == CHOOSE c \in cells : \A d \in cells : Flat(c[1], c[2]) <= Flat(d[1], d[2])
              i   == c[1]
              j   == c[2]
              w   == xs[i][j + 1] - xs[i][j]
              h   == ys[i + 1][j] - ys[i][j]
              dx  == p[1] - xs[i][j]
              dy  == p[2] - ys[i][j]
              vLL == vals[i][j]
              vLR == vals[i][j + 1]
              vUL == vals[i + 1][j]
              vUR == vals[i + 1][j + 1]
          IN  IF diag = "rising"
              THEN IF dy * w <= dx * h
                   THEN Num(vLL + ((vLR - vLL) * dx) \div w + ((vUR - vLR) * dy) \div h)
                   ELSE Num(vLL + ((vUL - vLL) * dy) \div h + ((vUR - vUL) * dx) \div w)
              ELSE IF dx * h + dy * w <= w * h
                   THEN Num(vLL + ((vLR - vLL) * dx) \div w + ((vUL - vLL) * dy) \div h)
                   ELSE Num(vUR + ((vUL - vUR) * (w - dx)) \div w
                                + ((vLR - vUR) * (h - dy)) \div h)

Dist2(xs, ys, f, p) ==
    (xs[FlatRow(f)][FlatCol(f)] - p[1]) * (xs[FlatRow(f)][FlatCol(f)] - p[1])
  + (ys[FlatRow(f)][FlatCol(f)] - p[2]) * (ys[FlatRow(f)][FlatCol(f)] - p[2])

\* NearestNDInterpolator((xs, ys), vals)(p): the value at the nearest lattice
\* point; among equidistant points the k-d tree returns the first or the
\* last it holds, as `tie` says
NearestND(xs, ys, vals, tie, p) ==
    LET all  == 1..(LutN * LutN)
        near == {f \in all : \A g \in all : Dist2(xs, ys, f, p) <= Dist2(xs, ys, g, p)}
        f    == IF tie = "first"
                THEN CHOOSE f \in near : \A g \in near : f <= g
                ELSE CHOOSE f \in near : \A g \in near : f >= g
    IN  Num(vals[FlatRow(f)][FlatCol(f)])

\* corner_pts[:,:,ci,k]
CornerSlice(cpts, ci, k) ==
    [i \in LutIdx |-> [j \in LutIdx |-> cpts[i][j][ci][k]]]

\* lines 223-238 filling only the longitude offsets
ExtrapolateLonOnly(xs, ys, vals, tie, pixel_loc, d, isLon) ==
    [e \in DOMAIN d |->
        IF IsNaN(d[e]) /\ isLon THEN NearestND(xs, ys, vals, tie, pixel_loc[e]) ELSE d[e]]

\* lines 223-238 replacing the offsets of the whole batch once one is nan
ExtrapolateWholeBatch(xs, ys, vals, tie, pixel_loc, d, isLon) ==
    [e \in DOMAIN d |->
        IF \E o \in DOMAIN d : IsNaN(d[o])
        THEN NearestND(xs, ys, vals, tie, pixel_loc[e])
        ELSE d[e]]

\* lines 223-238 for one offset array d: d[out] = nearest(pixel_loc[out])
Extrapolate(xs, ys, vals, tie, pixel_loc, d, isLon) ==
    [e \in DOMAIN d |->
        IF IsNaN(d[e]) THEN NearestND(xs, ys, vals, tie, pixel_loc[e]) ELSE d[e]]

\* lines 213-238 with the extrapolate flag ignored
OffsetsAlwaysExtrapolated(xs, ys, cpts, ci, k, pixel_loc, extrapolate, diag, tie) ==
    Extrapolate(xs, ys, CornerSlice(cpts, ci, k), tie, pixel_loc,
                [e \in DOMAIN pixel_loc |->
                    LinearND(xs, ys, CornerSlice(cpts, ci, k), diag, pixel_loc[e])],
                k = 1)

\* lines 213-238 for corner ci and coordinate k: the offsets of all events
Offsets(xs, ys, cpts, ci, k, pixel_loc, extrapolate, diag, tie) ==
    LET vals == CornerSlice(cpts, ci, k)
        d    == [e \in DOMAIN pixel_loc |-> LinearND(xs, ys, vals, diag, pixel_loc[e])]
    IN  IF extrapolate
        THEN Extrapolate(xs, ys, vals, tie, pixel_loc, d, k = 1)
        ELSE d

\* lines 203-243: the returned array, the lookup longitudes after the call
\* and the exception raised; the function has no try, so the error of the
\* first interpolator built (line 213) ends the call and nothing is returned
quads_from_corner_lookup(lons, lats, cpts, lon, lat, nadir_lon, inflate, extrapolate, diag, tie) ==
    LET n_corners == Len(cpts[1][1])
        n_coords  == Len(cpts[1][1][1])
        shift     == ShiftLons(lons, nadir_lon)
        pixel_loc == PixelLoc(lon, lat)
        dlon == [ci \in 1..n_corners |->
                    Offsets(shift.lon_shift, lats, cpts, ci, 1, pixel_loc,
                            extrapolate, diag, tie)]
        dlat == [ci \in 1..n_corners |->
                    Offsets(shift.lon_shift, lats, cpts, ci, 2, pixel_loc,
                            extrapolate, diag, tie)]
    IN  CHOOSE out \in
          {IF exc # "none"
           THEN [quads |-> <<>>, g_lons |-> shift.g_lons, exc |-> exc]
           ELSE [quads  |-> [e \in 1..Len(lon) |-> [ci \in 1..n_corners |->
                               [k \in 1..n_coords |->
                                   IF k = 1
                                   THEN FAdd(Num(lon[e]), FMul(dlon[ci][e], Num(inflate)))
                                   ELSE FAdd(Num(lat[e]), FMul(dlat[ci][e], Num(inflate)))]]],
                 g_lons |-> shift.g_lons,
                 exc    |-> "none"]
             : exc \in {DelaunayError(shift.lon_shift, lats)}} : TRUE

\* the sample lookup tables: a square lattice and varied corner offsets
SampleLons == [i \in LutIdx |-> [j \in LutIdx |-> Cell * (j - 1)]]
SampleLats == [i \in LutIdx |-> [j \in LutIdx |-> Cell * (i - 1)]]
SampleCorners(seed) ==
    [i \in LutIdx |-> [j \in LutIdx |-> [ci \in 1..4 |-> [k \in 1..2 |->
        Cell * (((3 * i + 5 * j + 7 * ci + seed * k) % 5) - 2)]]]]

\* a lookup axis read from a corrupt file: every entry the same value
CollapsedAxis == [i \in LutIdx |-> [j \in LutIdx |-> 0]]

\* sample events: inside a cell, off both diagonals; on a lattice point;
\* outside the hull with one nearest point; outside, between two
EventPoints == {<<1, 2>>, <<Cell, 0>>, <<-3, 1>>, <<2, -2>>}

EventLists == UNION {[1..n -> EventPoints] : n \in 1..MaxPts}

InitQuads ==
    /\ \E table \in {<<SampleLons, SampleLats, 1>>,
                      <<SampleLons, SampleLats, 2>>,
                      <<SampleLons, CollapsedAxis, 1>>,
                      <<CollapsedAxis, CollapsedAxis, 2>>} :
           /\ g_lons = table[1]
           /\ g_lats = table[2]
           /\ corner_pts = SampleCorners(table[3])
    /\ \E evs \in EventLists :
           /\ p_lon = [e \in 1..Len(evs) |-> evs[e][1]]
           /\ p_lat = [e \in 1..Len(evs) |-> evs[e][2]]
    /\ q_args \in [nadir_lon : {0, Cell}, inflate : {1, 2}, extrapolate : BOOLEAN]
    /\ qhull_diag \in {"rising", "falling"}
    /\ nn_tie \in {"first", "last"}
    /\ quads = <<>>
    /\ q_prev = <<>>
    /\ q_calls = 0
    /\ q_err = "none"

\* no call of quads_from_corner_lookup in this behaviour
IdleQuads ==
    /\ g_lons = SampleLons
    /\ g_lats = SampleLats
    /\ corner_pts = SampleCorners(1)
    /\ p_lon = <<>>
    /\ p_lat = <<>>
    /\ q_args = [nadir_lon |-> 0, inflate |-> 1, extrapolate |-> TRUE]
    /\ qhull_diag = "rising"
    /\ nn_tie = "first"
    /\ quads = <<>>
    /\ q_prev = <<>>
    /\ q_calls = 0
    /\ q_err = "none"

\* quads = quads_from_corner_lookup(g_lons, g_lats, corner_pts, p_lon, p_lat, ...)
Resolve ==
    /\ q_calls < 2       \* the call and one repetition of it
    /\ \E out \in {quads_from_corner_lookup(g_lons, g_lats, corner_pts, p_lon, p_lat,
                      q_args.nadir_lon, q_args.inflate, q_args.extrapolate,
                      qhull_diag, nn_tie)} :
           /\ quads' = (IF out.exc = "none" THEN out.quads ELSE quads)
           /\ g_lons' = out.g_lons
           /\ q_err' = out.exc
    /\ q_prev' = quads
    /\ q_calls' = q_calls + 1
    /\ UNCHANGED <<g_lats, corner_pts, p_lon, p_lat, q_args, qhull_diag, nn_tie>>
    /\ FrameQuads

(***************************************************************************)
(* Floating point of the transforms (proj_utils.py).                       *)
(*                                                                         *)
(* numpy computes in float64.  The model computes in binary floating point *)
(* with a 30-bit significand: a finite number is s * m * 2^e with sign s,  *)
(* significand m = 0 or 2^29 <= m < 2^30, and exponent e; results are      *)
(* truncated, with a relative rounding error of a few 2^-30 (about 1e-9).  *)
(* Besides the finite numbers there are nan, +inf and -inf; numpy's        *)
(* operations return them (with a RuntimeWarning) where Python's own float *)
(* operations would raise.  A raised exception travels as a value of its   *)
(* own kind (k is the exception's name) through the operations after it.   *)
(*                                                                         *)
(* An operation evaluates each operand once, as a Python call does: the    *)
(* operands are bound to their values before the operation computes.       *)
(***************************************************************************)
TwoSig == 2^30        \* significands are below this and, unless zero, at least half of it

Fin(s, m, e) == [k |-> "fin", s |-> s, m |-> m, e |-> e]
fnan         == [k |-> "nan", s |-> 1, m |-> 0, e |-> 0]
finf(s)      == [k |-> "inf", s |-> s, m |-> 0, e |-> 0]
fone         == Fin(1, TwoSig \div 2, -29)

\* the result of an operation one of whose operands is an exception on its
\* way out or nan: the exception, else nan
NonNum(a, b) ==
    IF a.k \notin {"fin", "inf", "nan"} THEN a
    ELSE IF b.k \notin {"fin", "inf", "nan"} THEN b
    ELSE fnan

\* s * m * 2^e for m >= 0, the significand brought into [2^29, 2^30)
RECURSIVE Norm(_, _, _)
Norm(s, m, e) ==
    IF m = 0 THEN Fin(s, 0, 0)
    ELSE IF m >= TwoSig THEN Norm(s, m \div 2, e + 1)
    ELSE IF m < 2^14 THEN Norm(s, m * (2^16), e - 16)
    ELSE IF m < 2^22 THEN Norm(s, m * (2^8), e - 8)
    ELSE IF m < 2^26 THEN Norm(s, m * (2^4), e - 4)
    ELSE IF m < 2^28 THEN Norm(s, m * (2^2), e - 2)
    ELSE IF m < 2^29 THEN Norm(s, m * 2, e - 1)
    ELSE Fin(s, m, e)

\* a Python int as a float
FromInt(n) == IF n >= 0 THEN Norm(1, n, 0) ELSE Norm(-1, -n, 0)

\* -a and abs(a)
Neg(a) == CHOOSE r \in {IF v.k \in {"fin", "inf"} THEN [v EXCEPT !.s = -v.s] ELSE v : v \in {a}} : TRUE
Abs(a) == CHOOSE r \in {IF v.k \in {"fin", "inf"} THEN [v EXCEPT !.s = 1] ELSE v : v \in {a}} : TRUE

\* a + b: the significand of the smaller exponent is shifted right, truncated
Add(a, b) ==
    CHOOSE r \in
      {IF ~({v.k, w.k} \subseteq {"fin", "inf"}) THEN NonNum(v, w)
       ELSE IF v.k = "inf" THEN (IF w.k = "inf" /\ v.s # w.s THEN fnan ELSE v)
       ELSE IF w.k = "inf" THEN w
       ELSE IF v.m = 0 THEN (IF w.m = 0 /\ v.s # w.s THEN Fin(1, 0, 0) ELSE w)
       ELSE IF w.m = 0 THEN v
       ELSE LET ex == IF v.e >= w.e THEN v.e ELSE w.e
                vm == IF ex - v.e >= 31 THEN 0 ELSE v.m \div (2^(ex - v.e))
                wm == IF ex - w.e >= 31 THEN 0 ELSE w.m \div (2^(ex - w.e))
                t  == v.s * vm + w.s * wm
            IN  IF t >= 0 THEN Norm(1, t, ex) ELSE Norm(-1, -t, ex)
         : v \in {a}, w \in {b}} : TRUE

\* a - b
Sub(a, b) == Add(a, Neg(b))

\* a * b: the upper 30 bits of the 60-bit product of the significands, each
\* significand taken as two halves of 15 bits
Mul(a, b) ==
    CHOOSE r \in
      {IF ~({v.k, w.k} \subseteq {"fin", "inf"}) THEN NonNum(v, w)
       ELSE IF v.k = "inf" \/ w.k = "inf"
            THEN (IF (v.k = "fin" /\ v.m = 0) \/ (w.k = "fin" /\ w.m = 0)
                  THEN fnan ELSE finf(v.s * w.s))
       ELSE IF v.m = 0 \/ w.m = 0 THEN Fin(v.s * w.s, 0, 0)
       ELSE LET vh  == v.m \div (2^15)
                vl  == v.m % (2^15)
                wh  == w.m \div (2^15)
                wl  == w.m % (2^15)
                mid == vh * wl + vl * wh + ((vl * wl) \div (2^15))
                hi  == vh * wh + (mid \div (2^15))
            IN  IF hi >= TwoSig \div 2
                THEN Fin(v.s * w.s, hi, v.e + w.e + 30)
                ELSE Fin(v.s * w.s, 2 * hi + ((mid % (2^15)) \div (2^14)), v.e + w.e + 29)
         : v \in {a}, w \in {b}} : TRUE

\* a**2
Sq(a) == CHOOSE r \in {Mul(v, v) : v \in {a}} : TRUE

\* Newton's iteration x <- x * (2 - d * x) for 1/d, 1/2 <= d < 1
RECURSIVE RecipNewton(_, _, _)
RecipNewton(d, x, n) ==
    IF n = 0 THEN x
    ELSE CHOOSE r \in {RecipNewton(d, y, n - 1) :
                       y \in {Mul(x, Sub(Fin(1, TwoSig \div 2, -28), Mul(d, x)))}} : TRUE

\* 1/b for a finite b # 0, b = d * 2^(b.e + 30); the iteration starts from
\* the quotient of 2^30 by the upper half of the significand
Recip(b) ==
    CHOOSE r \in {Fin(b.s, x.m, x.e - b.e - 30) :
                   x \in {RecipNewton(Fin(1, b.m, -30),
                                      Norm(1, TwoSig \div (b.m \div (2^15)), -15), 2)}} : TRUE

\* a / b on numpy floats: x/0 is inf, 0/0 is nan (a RuntimeWarning, no
\* exception)
Div(a, b) ==
    CHOOSE r \in
      {IF ~({v.k, w.k} \subseteq {"fin", "inf"}) THEN NonNum(v, w)
       ELSE IF v.k = "inf" THEN (IF w.k = "inf" THEN fnan ELSE finf(v.s * w.s))
       ELSE IF w.k = "inf" THEN Fin(v.s * w.s, 0, 0)
       ELSE IF w.m = 0 THEN (IF v.m = 0 THEN fnan ELSE finf(v.s * w.s))
       ELSE IF v.m = 0 THEN Fin(v.s * w.s, 0, 0)
       ELSE Mul(v, Recip(w))
         : v \in {a}, w \in {b}} : TRUE

\* a decimal literal n / 10^digits
Dec(n, digits) == Div(FromInt(n), FromInt(10^digits))

\* Newton's iteration g <- (g + a/g)/2 for the square root of a finite a > 0
RECURSIVE SqrtNewton(_, _, _)
SqrtNewton(a, g, n) ==
    IF n = 0 THEN g
    ELSE CHOOSE r \in {SqrtNewton(a, h, n - 1) :
                       h \in {Mul(Fin(1, TwoSig \div 2, -30), Add(g, Div(a, g)))}} : TRUE

\* numpy.sqrt: nan (and a RuntimeWarning) for a negative number.  A finite
\* a > 0 is f * 2^(2j) with 1/2 <= f < 2; the iteration starts from
\* (1 + f)/2 * 2^j
sqrt(a) ==
    CHOOSE r \in
      {IF v.k \notin {"fin", "inf"} THEN v
       ELSE IF v.k = "fin" /\ v.m = 0 THEN v
       ELSE IF v.s = -1 THEN fnan
       ELSE IF v.k = "inf" THEN v
       ELSE LET ex == v.e + 30
                j  == (ex - (ex % 2)) \div 2
            IN  CHOOSE g \in {SqrtNewton(v, Fin(1, g0.m, g0.e + j), 4) :
                              g0 \in {Mul(Fin(1, TwoSig \div 2, -30),
                                          Add(fone, Fin(1, v.m, (ex % 2) - 30)))}} : TRUE
         : v \in {a}} : TRUE

halfPi == Fin(1, 843314857, -29)      \* pi/2

\* floor of a finite number below 2^30 in magnitude
Floor(a) ==
    CHOOSE n \in
      {IF v.m = 0 THEN 0
       ELSE IF v.e >= 0 THEN v.s * v.m * (2^v.e)
       ELSE LET q == IF -v.e >= 31 THEN 0 ELSE v.m \div (2^(-v.e))
            IN  IF v.s = 1 THEN q
                ELSE IF -v.e < 31 /\ q * (2^(-v.e)) = v.m THEN -q ELSE -q - 1
         : v \in {a}} : TRUE

\* 1 - c1*r2 * (1 - c2*r2 * (1 - ...)), the tail of a Taylor series, from the
\* innermost factor outwards; cs lists the coefficients as <<numerator,
\* denominator>>, the innermost first
RECURSIVE Horner(_, _, _)
Horner(r2, cs, acc) ==
    IF cs = <<>> THEN acc
    ELSE CHOOSE r \in {Horner(r2, Tail(cs), nxt) :
                       nxt \in {Sub(fone, Mul(Mul(r2, Div(FromInt(Head(cs)[1]), FromInt(Head(cs)[2]))), acc))}} : TRUE

\* x = n * pi/2 + r with |r| <= pi/4: <<n mod 4, r>>, n = floor(x * 2/pi + 1/2).
\* From 2^30 quarter turns on, a 30-bit significand holds no fraction of a turn
Reduce(x) ==
    CHOOSE nr \in
      {IF q.m = 0 \/ q.e < -31 THEN <<0, x>>
       ELSE IF q.e > 0 THEN <<0, Fin(x.s, 0, 0)>>
       ELSE CHOOSE p \in {<<n % 4, Sub(x, Mul(FromInt(n), halfPi))>> :
                          n \in {Floor(Add(q, Fin(1, TwoSig \div 2, -30)))}} : TRUE
         : q \in {Mul(x, Fin(1, 683565276, -30))}} : TRUE

\* the sine of a finite x: by quarter turn, the sine series r - r^3/3! + ...
\* or the cosine series 1 - r^2/2! + ... of the reduced argument
SinFin(x) ==
    CHOOSE r \in
      {IF nr[1] % 2 = 0
       THEN Mul(Mul(FromInt(1 - nr[1]), nr[2]),
                Horner(Sq(nr[2]), <<<<1, 156>>, <<1, 110>>, <<1, 72>>, <<1, 42>>, <<1, 20>>, <<1, 6>>>>, fone))
       ELSE Mul(FromInt(2 - nr[1]),
                Horner(Sq(nr[2]), <<<<1, 132>>, <<1, 90>>, <<1, 56>>, <<1, 30>>, <<1, 12>>, <<1, 2>>>>, fone))
         : nr \in {Reduce(x)}} : TRUE

\* math.sin in the place of numpy.sin: ValueError ("math domain error") for
\* an infinity
sinMath(a) ==
    CHOOSE r \in {IF v.k = "fin" THEN SinFin(v)
                  ELSE IF v.k = "inf" THEN [k |-> "ValueError", s |-> 1, m |-> 0, e |-> 0]
                  ELSE v : v \in {a}} : TRUE

\* numpy.sin: nan (and a RuntimeWarning) for an infinity
sin(a) ==
    CHOOSE r \in {IF v.k = "fin" THEN SinFin(v)
                  ELSE IF v.k = "inf" THEN fnan
                  ELSE v : v \in {a}} : TRUE

\* numpy.cos, as the sine a quarter turn on, and numpy.tan
cos(a) == sin(Add(a, halfPi))
tan(a) == CHOOSE r \in {Div(sin(v), cos(v)) : v \in {a}} : TRUE

\* arctan(a) = 2 * arctan(a / (1 + sqrt(1 + a^2))), n times, then the series
\* u - u^3/3 + u^5/5 - ... + u^13/13; three halvings bring any a below
\* tan(pi/16)
RECURSIVE ArctanHalf(_, _)
ArctanHalf(a, n) ==
    IF n = 0
    THEN Mul(a, Horner(Sq(a), <<<<11, 13>>, <<9, 11>>, <<7, 9>>, <<5, 7>>, <<3, 5>>, <<1, 3>>>>, fone))
    ELSE CHOOSE r \in {Mul(FromInt(2), ArctanHalf(u, n - 1)) :
                       u \in {Div(a, Add(fone, sqrt(Add(fone, Sq(a)))))}} : TRUE

\* numpy.arctan
arctan(a) ==
    CHOOSE r \in {IF v.k = "fin" THEN ArctanHalf(v, 3)
                  ELSE IF v.k = "inf" THEN Fin(v.s, halfPi.m, halfPi.e)
                  ELSE v : v \in {a}} : TRUE

\* numpy.degrees and numpy.radians: times 180/pi and pi/180
degrees(a) == Mul(a, Fin(1, 961263669, -24))
\* the argument taken as radians already
radiansOfRadians(a) == a

radians(a) == Mul(a, Fin(1, 599690565, -35))

(***************************************************************************)
(* proj_utils.py: scan_to_geod, geod_to_scan and their helper functions.   *)
(* Angles x, y, lat and lon are floats; a call returns the pair the        *)
(* function returns, or carries the exception raised on the way.           *)
(***************************************************************************)
\* name = val; Body(name): a statement assigns the value of its right side
_calc_a(x, y, r_eq, r_pol) == Mul(Add(Sq(sin(x)), Sq(cos(x))), Add(Sq(cos(y)), Mul(Div(Sq(r_eq), Sq(r_pol)), Sq(sin(y)))))

_calc_b(x, y, H) == Mul(Mul(Mul(FromInt(-2), H), cos(x)), cos(y))

_calc_c(H, r_eq) == Sub(Sq(H), Sq(r_eq))

\* try: num = -b - sqrt(b**2 - 4*a*c); except ValueError: the same with
\* abs() under the root; then den = 2*a and the quotient
_calc_rs(a, b, c) ==
    Div(CHOOSE num \in
            {IF try.k = "ValueError"
             THEN Sub(Neg(b), sqrt(Abs(Sub(Sq(b), Mul(Mul(FromInt(4), a), c)))))
             ELSE try
               : try \in {Sub(Neg(b), sqrt(Sub(Sq(b), Mul(Mul(FromInt(4), a), c))))}} : TRUE,
        Mul(FromInt(2), a))

_calc_sx(r_s, x, y) == Mul(Mul(r_s, cos(x)), cos(y))

_calc_sy(r_s, x) == Mul(Neg(r_s), sin(x))

_calc_sz(r_s, x, y) == Mul(Mul(r_s, cos(x)), sin(y))

_calc_thetac(r_eq, r_pol, lat) == arctan(Mul(Div(Sq(r_pol), Sq(r_eq)), tan(lat)))

_calc_rc(r_pol, e, theta_c) == Div(r_pol, sqrt(Sub(fone, Mul(Sq(e), Sq(cos(theta_c))))))

_calc_sx_inv(H, r_c, theta_c, lon, lambda_0) == Sub(H, Mul(Mul(r_c, cos(theta_c)), cos(Sub(lon, lambda_0))))

_calc_sy_inv(r_c, theta_c, lon, lambda_0) == Mul(Mul(Neg(r_c), cos(theta_c)), sin(Sub(lon, lambda_0)))

_calc_sz_inv(r_c, theta_c) == Mul(r_c, sin(theta_c))

\* scan_to_geod(y, x) returns out = (lat, lon) in degrees.  Each statement of
\* the function binds the value it assigns: the constants r_eq, r_pol,
\* H = h_goes + r_eq and lambda_0 first
scan_to_geod(y, x, out) ==
    \E r_eq \in {FromInt(6378137)} :
    \E r_pol \in {Add(FromInt(6356752), Dec(31414, 5))} :
    \E H \in {FromInt(42164160)} :
    \E lambda_0 \in {Neg(Dec(1308996939, 9))} :
    \E a \in {_calc_a(x, y, r_eq, r_pol)} :
    \E b \in {_calc_b(x, y, H)} :
    \E c \in {_calc_c(H, r_eq)} :
    \E r_s \in {_calc_rs(a, b, c)} :
    \E s_x \in {_calc_sx(r_s, x, y)} :
    \E s_y \in {_calc_sy(r_s, x)} :
    \E s_z \in {_calc_sz(r_s, x, y)} :
    \E lat1 \in {Div(Sq(r_eq), Sq(r_pol))} :
    \E lat2 \in {Div(s_z, sqrt(Add(Sq(Sub(H, s_x)), Sq(s_y))))} :
    \E lat \in {arctan(Mul(lat1, lat2))} :
    \E lon1 \in {arctan(Div(s_y, Sub(H, s_x)))} :
    \E lon \in {Sub(lambda_0, lon1)} :
        out = <<degrees(lat), degrees(lon)>>

\* geod_to_scan(lat, lon) returns out = (y, x) in radians; e = 0.0818191910435
\* is written to the nine digits a 30-bit significand holds
geod_to_scan(lat, lon, out) ==
    \E r_eq \in {FromInt(6378137)} :
    \E r_pol \in {Add(FromInt(6356752), Dec(31414, 5))} :
    \E e \in {Dec(81819191, 9)} :
    \E H \in {FromInt(42164160)} :
    \E lambda_0 \in {Neg(Dec(1308996939, 9))} :
    \E lat_r \in {radians(lat)} :
    \E lon_r \in {radians(lon)} :
    \E theta_c \in {_calc_thetac(r_eq, r_pol, lat_r)} :
    \E r_c \in {_calc_rc(r_pol, e, theta_c)} :
    \E s_x \in {_calc_sx_inv(H, r_c, theta_c, lon_r, lambda_0)} :
    \E s_y \in {_calc_sy_inv(r_c, theta_c, lon_r, lambda_0)} :
    \E s_z \in {_calc_sz_inv(r_c, theta_c)} :
    \E y \in {arctan(Div(s_z, s_x))} :
    \E x \in {Div(Neg(s_y), sqrt(Add(Add(Sq(s_x), Sq(s_y)), Sq(s_z))))} :
        out = <<y, x>>

(***************************************************************************)
(* Calls of the two transforms.  A caller holds a pair of floats t_arg and *)
(* calls one transform on it; the value returned by geod_to_scan may be    *)
(* passed on to scan_to_geod (the round trip).                             *)
(***************************************************************************)
\* the exception a call ends with: the first one raised, "none" if it returns
Raises(p) ==
    IF p[1].k \notin {"fin", "nan", "inf"} THEN p[1].k
    ELSE IF p[2].k \notin {"fin", "nan", "inf"} THEN p[2].k
    ELSE "none"

\* the sample grid over the visible disk: lat in [-60, 60] and lon within 60
\* degrees of the origin longitude -75, at whole degrees, GridPerAxis equal
\* intervals along each axis
GridPerAxis == 12
GeodGrid ==
    {<<FromInt(-60 + i * (120 \div GridPerAxis)), FromInt(-135 + j * (120 \div GridPerAxis))>> :
        i \in 0..GridPerAxis, j \in 0..GridPerAxis}

\* latitude and longitude pairs besides the grid
GeodSamples ==
    { <<Dec(480563, 4), Neg(Dec(701242, 4))>>,
      <<Dec(33943546, 6), Neg(Dec(8452599, 5))>>,
      <<Fin(1, 0, 0), FromInt(-137)>>,
      <<Fin(1, 0, 0), Neg(Dec(895, 1))>>,
      <<Fin(1, 0, 0), FromInt(105)>>,
      <<FromInt(89), FromInt(-75)>>,
      <<fnan, FromInt(-75)>>,
      <<FromInt(10), finf(1)>>,
      <<finf(-1), fnan>> }

\* scan angle pairs (y, x)
ScanSamples ==
    { <<Fin(1, 0, 0), Fin(1, 0, 0)>>,
      <<Dec(11088, 5), Neg(Dec(728, 4))>>,
      <<Dec(11088, 5), Neg(Dec(448, 4))>>,
      <<Dec(8288, 5), Neg(Dec(728, 4))>>,
      <<Dec(8288, 5), Neg(Dec(448, 4))>>,
      <<Dec(1, 1), Dec(1, 1)>>,
      <<Dec(5, 1), Dec(5, 1)>>,
      <<Fin(1, 0, 0), Dec(2, 1)>>,
      <<halfPi, Fin(1, 0, 0)>>,
      <<FromInt(1000000), FromInt(3)>>,
      <<fnan, Fin(1, 0, 0)>>,
      <<Fin(1, 0, 0), finf(1)>>,
      <<finf(-1), Dec(1, 1)>>,
      <<finf(1), finf(1)>> }

InitProj ==
    /\ \/ t_fn = "geod_to_scan" /\ t_arg \in GeodGrid \cup GeodSamples
       \/ t_fn = "scan_to_geod" /\ t_arg \in ScanSamples
    /\ t_ret = <<>>
    /\ t_back = <<>>
    /\ t_exc = "none"
    /\ t_pc = "start"

\* geod_to_scan(lat, lon) is called on t_arg
GeodToScan ==
    /\ t_pc = "start"
    /\ t_fn = "geod_to_scan"
    /\ geod_to_scan(t_arg[1], t_arg[2], t_ret')
    /\ t_exc' = Raises(t_ret')
    /\ t_pc' = "returned"
    /\ UNCHANGED <<t_fn, t_arg, t_back>>
    /\ FrameProj

\* scan_to_geod(y, x) is called on t_arg
ScanToGeod ==
    /\ t_pc = "start"
    /\ t_fn = "scan_to_geod"
    /\ scan_to_geod(t_arg[1], t_arg[2], t_ret')
    /\ t_exc' = Raises(t_ret')
    /\ t_pc' = "returned"
    /\ UNCHANGED <<t_fn, t_arg, t_back>>
    /\ FrameProj

\* scan_to_geod(*geod_to_scan(lat, lon)): the angles geod_to_scan returned
\* are passed to scan_to_geod
RoundTrip ==
    /\ t_pc = "returned"
    /\ t_fn = "geod_to_scan"
    /\ t_exc = "none"
    /\ scan_to_geod(t_ret[1], t_ret[2], t_back')
    /\ t_exc' = Raises(t_back')
    /\ t_pc' = "back"
    /\ UNCHANGED <<t_fn, t_arg, t_ret>>
    /\ FrameProj

\* no call of the transforms in this behaviour
IdleProj ==
    /\ t_fn = "none"
    /\ t_arg = <<>>
    /\ t_ret = <<>>
    /\ t_back = <<>>
    /\ t_exc = "none"
    /\ t_pc = "idle"

(***************************************************************************)
(* The command-line utilities under src/scripts: nohrsc.py (snowfall       *)
(* analysis file names), date_time_utils.py (6-hour chunks) and            *)
(* get_fixed_grid_edges of proj_utils.py.                                  *)
(*                                                                         *)
(* A date string is the sequence of its fields, as strings, in the order   *)
(* of its format ('2019-12-06-15' is <<"2019", "12", "06", "15">>); a      *)
(* format is the sequence of its directives ("Y", "m", "d", "H", "M").  A  *)
(* datetime is a record of its fields with exc = "none"; a call that       *)
(* raises yields a record [exc |-> the exception].                         *)
(***************************************************************************)
\* datetime(year, month, day, hour, minute): the constructor validates its
\* arguments against the calendar and raises ValueError
datetime(year, month, day, hour, minute) ==
    IF /\ month \in 1..12
       /\ day >= 1
       /\ day <= (IF month \in {4, 6, 9, 11} THEN 30
                  ELSE IF month # 2 THEN 31
                  ELSE IF year % 4 = 0 /\ (year % 100 # 0 \/ year % 400 = 0) THEN 29
                  ELSE 28)
       /\ hour \in 0..23
       /\ minute \in 0..59
    THEN [exc |-> "none", year |-> year, month |-> month, day |-> day,
          hour |-> hour, minute |-> minute]
    ELSE [exc |-> "ValueError"]

\* the number in lo..hi that the digit string s writes, with or without a
\* leading zero; -1 when it writes none
IntOf(s, lo, hi) ==
    IF \E n \in lo..hi : s \in {Str(n), ZFill(Str(n), 2)}
    THEN CHOOSE n \in lo..hi : s \in {Str(n), ZFill(Str(n), 2)}
    ELSE -1

\* datetime.strptime(date_string, format); a directive the format lacks
\* leaves its field at the default (minute 0).  Years are read in 2018..2021.
strptime(date_string, format) ==
    IF Len(date_string) # Len(format)
    THEN [exc |-> "ValueError"]
    ELSE CHOOSE date_in \in
           {datetime(Y, m, d, H, M) :
              Y \in {IntOf(date_string[i], 2018, 2021) : i \in {j \in 1..Len(format) : format[j] = "Y"}},
              m \in {IntOf(date_string[i], 1, 12) : i \in {j \in 1..Len(format) : format[j] = "m"}},
              d \in {IntOf(date_string[i], 1, 31) : i \in {j \in 1..Len(format) : format[j] = "d"}},
              H \in {IntOf(date_string[i], 0, 23) : i \in {j \in 1..Len(format) : format[j] = "H"}},
              M \in IF \E j \in 1..Len(format) : format[j] = "M"
                    THEN {IntOf(date_string[i], 0, 59) : i \in {j \in 1..Len(format) : format[j] = "M"}}
                    ELSE {0}} : TRUE

\* date.strftime(format): every field zero-padded to its width
strftime(date, format) ==
    [i \in 1..Len(format) |->
        CASE format[i] = "Y" -> ZFill(Str(date.year), 4)
          [] format[i] = "m" -> ZFill(Str(date.month), 2)
          [] format[i] = "d" -> ZFill(Str(date.day), 2)
          [] format[i] = "H" -> ZFill(Str(date.hour), 2)
          [] format[i] = "M" -> ZFill(Str(date.minute), 2)]

(***************************************************************************)
(* nohrsc.py                                                               *)
(***************************************************************************)
\* adjust_date with the hour moved to the next valid analysis hour
adjust_dateForward(cmd_args) ==
    CHOOSE date_out \in
      {IF date_in.exc # "none" THEN date_in
       ELSE IF cmd_args.period = 99
       THEN datetime(date_in.year, date_in.month,
                     IF date_in.hour < 12 THEN date_in.day - 1 ELSE date_in.day,
                     12, date_in.minute)
       ELSE IF cmd_args.period = 6
       THEN datetime(date_in.year, date_in.month, date_in.day,
                     (6 * ((date_in.hour + 5) \div 6)) % 24, date_in.minute)
       ELSE datetime(date_in.year, date_in.month, date_in.day,
                     (12 * ((date_in.hour + 11) \div 12)) % 24, date_in.minute)
         : date_in \in {strptime(cmd_args.date, <<"Y", "m", "d", "H">>)}} : TRUE

\* adjust_date(cmd_args), lines 161-187; date_in.replace(...) builds a new
\* datetime from the changed fields and so validates them
adjust_date(cmd_args) ==
    CHOOSE date_out \in
      {IF date_in.exc # "none" THEN date_in
       ELSE IF cmd_args.period = 99
       THEN CHOOSE r \in
              {IF decremented.exc # "none" THEN decremented
               ELSE datetime(decremented.year, decremented.month, decremented.day,
                             12, decremented.minute)
                 : decremented \in
                     {IF date_in.hour < 12
                      THEN datetime(date_in.year, date_in.month, date_in.day - 1,
                                    date_in.hour, date_in.minute)
                      ELSE date_in}} : TRUE
       ELSE IF cmd_args.period = 6
       THEN IF date_in.hour \notin {0, 6, 12, 18}
            THEN datetime(date_in.year, date_in.month, date_in.day,
                          CHOOSE new_hr \in {i \in {0, 6, 12, 18} : date_in.hour > i} :
                              \A i \in {0, 6, 12, 18} : date_in.hour > i => i <= new_hr,
                          date_in.minute)
            ELSE date_in
       ELSE IF date_in.hour \notin {0, 12}
            THEN datetime(date_in.year, date_in.month, date_in.day,
                          CHOOSE new_hr \in {i \in {0, 12} : date_in.hour > i} :
                              \A i \in {0, 12} : date_in.hour > i => i <= new_hr,
                          date_in.minute)
            ELSE date_in
         : date_in \in {strptime(cmd_args.date, <<"Y", "m", "d", "H">>)}} : TRUE

\* check_ftype(cmd_args), lines 221-228
check_ftype(cmd_args) == ~(cmd_args.period = 99 /\ cmd_args.f_type = "grib")

\* _parse_fname_season(cmd_args), lines 251-276
_parse_fname_season(cmd_args) ==
    CHOOSE f_name \in
      {IF date_in.exc # "none" THEN date_in
       ELSE [exc |-> "none",
             f_name |-> "sfav2_CONUS_"
                        \o Str(IF date_in.month < 9 THEN date_in.year - 1 ELSE date_in.year)
                        \o "093012" \o "_to_"
                        \o date_end[1] \o date_end[2] \o date_end[3] \o date_end[4]
                        \o "." \o (IF ~check_ftype(cmd_args) THEN "nc" ELSE cmd_args.f_type)]
         : date_in \in {adjust_date(cmd_args)},
           date_end \in {IF adjust_date(cmd_args).exc # "none" THEN <<>>
                         ELSE strftime(adjust_date(cmd_args), <<"Y", "m", "d", "H">>)}} : TRUE

\* _parse_fname_hour(cmd_args), lines 286-295
_parse_fname_hour(cmd_args) ==
    CHOOSE f_name \in
      {IF date_in.exc # "none" THEN date_in
       ELSE [exc |-> "none",
             f_name |-> "sfav2_CONUS_" \o Str(cmd_args.period) \o "h_"
                        \o valid_date[1] \o valid_date[2] \o valid_date[3] \o valid_date[4]
                        \o "." \o cmd_args.f_type]
         : date_in \in {adjust_date(cmd_args)},
           valid_date \in {IF adjust_date(cmd_args).exc # "none" THEN <<>>
                           ELSE strftime(adjust_date(cmd_args), <<"Y", "m", "d", "H">>)}} : TRUE

\* parse_fname(cmd_args), lines 139-144
parse_fname(cmd_args) ==
    IF cmd_args.period = 99 THEN _parse_fname_season(cmd_args)
    ELSE _parse_fname_hour(cmd_args)

(***************************************************************************)
(* get_fixed_grid_edges (proj_utils.py lines 190-246).  Angles and edge    *)
(* offsets are whole tenths of a microradian (0.7e-05 rad = 70).            *)
(***************************************************************************)
\* get_fixed_grid_edges(y, x, grid_res): the exception that ends the call,
\* the line that raises it and the local x_edges at that point.  Line 230
\* formats the message from `resolution`, a name bound nowhere in the
\* module, and lines 241 and 244 call np.append while the module imports
\* names from numpy (line 37) but never numpy as np: each raises NameError.
get_fixed_grid_edges(y, x, grid_res) ==
    CHOOSE out \in
      {IF grid_res \notin DOMAIN res_vals
       THEN [exc |-> "NameError", line |-> 230, x_edges |-> <<>>]
       ELSE [exc |-> "NameError", line |-> 241,
             x_edges |-> [i \in 1..Len(x) |-> x[i] - res_vals[grid_res]]]
         : res_vals \in {("0.5" :> 70) @@ ("1.0" :> 140) @@ ("2.0" :> 280) @@
                         ("4.0" :> 560) @@ ("10.0" :> 1400)}} : TRUE

(***************************************************************************)
(* calc_date_chunks (date_time_utils.py lines 10-62).                      *)
(***************************************************************************)
\* date + datetime.timedelta(hours=hours), for hours in -24..24
AddHours(date, hours) ==
    IF date.hour + hours \in 0..23
    THEN [date EXCEPT !.hour = date.hour + hours]
    ELSE IF date.hour + hours >= 24
    THEN IF datetime(date.year, date.month, date.day + 1, 0, 0).exc = "none"
         THEN [date EXCEPT !.day = date.day + 1, !.hour = date.hour + hours - 24]
         ELSE IF date.month < 12
         THEN [date EXCEPT !.month = date.month + 1, !.day = 1,
                           !.hour = date.hour + hours - 24]
         ELSE [date EXCEPT !.year = date.year + 1, !.month = 1, !.day = 1,
                           !.hour = date.hour + hours - 24]
    ELSE IF date.day > 1
    THEN [date EXCEPT !.day = date.day - 1, !.hour = date.hour + hours + 24]
    ELSE CHOOSE prev \in
           {[date EXCEPT !.year = ym[1], !.month = ym[2], !.day = last,
                         !.hour = date.hour + hours + 24]
              : ym \in {IF date.month > 1 THEN <<date.year, date.month - 1>>
                        ELSE <<date.year - 1, 12>>},
                last \in 28..31} :
           /\ datetime(prev.year, prev.month, prev.day, 0, 0).exc = "none"
           /\ datetime(prev.year, prev.month, prev.day + 1, 0, 0).exc # "none"

\* the order of datetimes (<=, > on lines 35 and 57) is the order of these keys
Key(date) ==
    (((date.year * 12 + date.month) * 31 + date.day) * 24 + date.hour) * 60 + date.minute

\* lines 35-40: the loop, from its state (prev, chunks) to its end
RECURSIVE ChunkLoop(_, _, _)
ChunkLoop(prev, end, chunks) ==
    IF Key(prev) <= Key(end)
    THEN ChunkLoop(AddHours(prev, 6), end,
                   Append(chunks, <<strftime(prev, <<"m", "d", "Y", "H", "M">>),
                                    strftime(AddHours(prev, 6), <<"m", "d", "Y", "H", "M">>)>>))
    ELSE [prev |-> prev, chunks |-> chunks]

\* calc_date_chunks(start, end): the list returned, or the exception raised
\* (chunks[-1] of an empty list, line 57, is an IndexError)
calc_date_chunks(start, end) ==
    CHOOSE out \in
      {IF s.exc # "none" \/ e.exc # "none"
       THEN [exc |-> "ValueError", chunks |-> <<>>]
       ELSE CHOOSE r \in
              {IF loop.chunks = <<>>
               THEN [exc |-> "IndexError", chunks |-> <<>>]
               ELSE IF Key(strptime(loop.chunks[Len(loop.chunks)][2],
                                    <<"m", "d", "Y", "H", "M">>)) > Key(e)
               THEN [exc |-> "none",
                     chunks |-> Append(SubSeq(loop.chunks, 1, Len(loop.chunks) - 1),
                                       <<strftime(AddHours(loop.prev, -6),
                                                  <<"m", "d", "Y", "H", "M">>),
                                         strftime(e, <<"m", "d", "Y", "H", "M">>)>>)]
               ELSE [exc |-> "none", chunks |-> loop.chunks]
                 : loop \in {ChunkLoop(s, e, <<>>)}} : TRUE
         : s \in {strptime(start, <<"m", "d", "Y", "H", "M">>)},
           e \in {strptime(end, <<"m", "d", "Y", "H", "M">>)}} : TRUE

(***************************************************************************)
(* A caller of the utilities: one call of one function on sample           *)
(* arguments.                                                              *)
(***************************************************************************)
\* parsed command lines: -d date -p period -t f_type
SnowArgs ==
    [date   : {<<Y, m, d, H>> : Y \in {"2019", "2020"},
                               m \in {"01", "02", "09", "10", "12"},
                               d \in {"01", "15", "29", "30", "31"},
                               H \in {ZFill(Str(h), 2) : h \in 0..23}},
     period : {6, 24, 48, 72, 99},
     f_type : {"nc", "grib"}]

\* (start, end) of calc_date_chunks, around a turn of the year and around a
\* leap day, with one string that is no date
ChunkArgs ==
    ({<<"12", "31", "2019", "15", "00">>, <<"12", "31", "2019", "21", "00">>,
      <<"01", "01", "2020", "03", "00">>, <<"01", "01", "2020", "09", "00">>,
      <<"01", "01", "2020", "10", "30">>}
       \X
     {<<"12", "31", "2019", "15", "00">>, <<"12", "31", "2019", "21", "00">>,
      <<"01", "01", "2020", "03", "00">>, <<"01", "01", "2020", "09", "00">>,
      <<"01", "01", "2020", "10", "30">>})
    \cup
    ({<<"02", "28", "2020", "22", "15">>, <<"02", "29", "2020", "04", "15">>,
      <<"03", "01", "2020", "00", "00">>, <<"02", "30", "2020", "00", "00">>}
       \X
     {<<"02", "28", "2020", "22", "15">>, <<"02", "29", "2020", "04", "15">>,
      <<"03", "01", "2020", "00", "00">>, <<"02", "30", "2020", "00", "00">>})

InitScripts ==
    /\ \/ s_fn \in {"adjust_date", "parse_fname"} /\ s_arg \in SnowArgs
       \/ /\ s_fn = "get_fixed_grid_edges"
          /\ s_arg \in {<<y, x, grid_res>> :
                           y \in {<<0>>, <<-560, 0, 560>>}, x \in {<<0, 280>>, <<1400>>},
                           grid_res \in {"0.5", "1.0", "2.0", "4.0", "10.0", "8.0", "2"}}
       \/ s_fn = "calc_date_chunks" /\ s_arg \in ChunkArgs
    /\ s_ret = <<>>
    /\ s_pc = "start"

\* no call of the utilities in this behaviour
IdleScripts ==
    /\ s_fn = "none"
    /\ s_arg = <<>>
    /\ s_ret = <<>>
    /\ s_pc = "idle"

\* s_ret = nohrsc.adjust_date(args)
AdjustDate ==
    /\ s_pc = "start" /\ s_fn = "adjust_date"
    /\ s_ret' = adjust_date(s_arg)
    /\ s_pc' = "done"
    /\ UNCHANGED <<s_fn, s_arg>>
    /\ FrameScripts

\* s_ret = nohrsc.parse_fname(args)
ParseFname ==
    /\ s_pc = "start" /\ s_fn = "parse_fname"
    /\ s_ret' = parse_fname(s_arg)
    /\ s_pc' = "done"
    /\ UNCHANGED <<s_fn, s_arg>>
    /\ FrameScripts

\* s_ret = get_fixed_grid_edges(y, x, grid_res)
GetFixedGridEdges ==
    /\ s_pc = "start" /\ s_fn = "get_fixed_grid_edges"
    /\ s_ret' = get_fixed_grid_edges(s_arg[1], s_arg[2], s_arg[3])
    /\ s_pc' = "done"
    /\ UNCHANGED <<s_fn, s_arg>>
    /\ FrameScripts

\* s_ret = calc_date_chunks(start, end)
CalcDateChunks ==
    /\ s_pc = "start" /\ s_fn = "calc_date_chunks"
    /\ s_ret' = calc_date_chunks(s_arg[1], s_arg[2])
    /\ s_pc' = "done"
    /\ UNCHANGED <<s_fn, s_arg>>
    /\ FrameScripts

(***************************************************************************)
(* Specifications: one per component; the other components stay idle.      *)
(***************************************************************************)
NextCount ==
    \/ Count
    \/ \E i \in 1..Len(unique_quads) : IncCount(i)
    \/ \E i \in 1..Len(unique_quads) : DecCount(i)

InitSpecCount == InitCount /\ IdleGrid /\ IdleQuads /\ IdleProj /\ IdleScripts

SpecCount == InitSpecCount /\ [][NextCount]_vars

NextGrid ==
    \E position \in ArgPositions, view \in ArgViews, resolution \in ArgResolutions :
        GetGrid(position, view, resolution)

InitSpecGrid == InitGrid /\ IdleCount /\ IdleQuads /\ IdleProj /\ IdleScripts

SpecGrid == InitSpecGrid /\ [][NextGrid]_vars

\* get_GOESR_grid and a caller that changes the dict it was handed
SpecGridCaller ==
    InitSpecGrid /\ [][NextGrid \/ \E key \in CallerKeys : CallerWrites(key)]_vars

NextQuads == Resolve

InitSpecQuads == InitQuads /\ IdleCount /\ IdleGrid /\ IdleProj /\ IdleScripts

SpecQuads == InitSpecQuads /\ [][NextQuads]_vars

NextProj == GeodToScan \/ ScanToGeod \/ RoundTrip

InitSpecProj == InitProj /\ IdleCount /\ IdleGrid /\ IdleQuads /\ IdleScripts

SpecProj == InitSpecProj /\ [][NextProj]_vars

InitSpecScripts == InitScripts /\ IdleCount /\ IdleGrid /\ IdleQuads /\ IdleProj
SpecScripts ==
    InitSpecScripts /\ [][AdjustDate \/ ParseFname \/ GetFixedGridEdges \/ CalcDateChunks]_vars

(***************************************************************************)
(* Claims about count() and EventQuad.                                     *)
(***************************************************************************)
Returned == cnt_pc = "counted" /\ cnt_calls = 0      \* count() has just returned

\* C1: the counts of the unique footprints returned by count() sum to the
\* number of input footprints, for every input list, the empty one included.
C1_SumConserved ==
    Returned =>
        SumSeq([n \in 1..Len(unique_quads) |-> unique_quads[n].count]) = Len(listOfCorners)

\* a list with repeats has been counted: fewer entries than inputs
C1_Witness ==
    /\ Returned
    /\ Len(listOfCorners) = 3
    /\ Len(unique_quads) = 2

\* C2 as stated: every unique footprint has count >= 1 and the count it was
\* built with is never changed afterwards.
C2_AsStated ==
    cnt_pc = "counted" =>
        \A n \in 1..Len(unique_quads) :
            /\ unique_quads[n].count >= 1
            /\ unique_quads[n].count = Counter(Keys(listOfCorners), unique_quads[n].corners)

\* C2 amended: every unique footprint has count >= 1 when count() returns it;
\* afterwards a count changes only through EventQuad.inc_count / dec_count,
\* by exactly one per call and on one object, and id and corners never change.
C2_BuiltPositiveThenStepOne ==
    [][ /\ (cnt_pc = "input" /\ cnt_pc' = "counted") =>
               \A n \in 1..Len(unique_quads') : unique_quads'[n].count >= 1
        /\ cnt_pc = "counted" =>
               /\ cnt_pc' = "counted"
               /\ Len(unique_quads') = Len(unique_quads)
               /\ \A n \in 1..Len(unique_quads) :
                      /\ unique_quads'[n].corners = unique_quads[n].corners
                      /\ unique_quads'[n].id = unique_quads[n].id
                      /\ unique_quads'[n].count - unique_quads[n].count \in {-1, 0, 1}
               /\ Cardinality({n \in 1..Len(unique_quads) :
                                   unique_quads'[n].count # unique_quads[n].count}) <= 1
      ]_vars

\* dec_count has taken a returned footprint's count below 1
C2_Witness ==
    /\ cnt_pc = "counted"
    /\ cnt_calls > 0
    /\ \E n \in 1..Len(unique_quads) : unique_quads[n].count = 0

\* the entries of the result that hold the bytes of input i
EntriesOf(i) ==
    {n \in 1..Len(unique_quads) : unique_quads[n].corners = tostring(listOfCorners[i])}

\* C3: count() returns one entry per distinct serialized corner array: two
\* inputs fall under the same entry iff their arrays have identical bit
\* patterns, no two entries hold the same corners, every entry stands for an
\* input, and an entry counts exactly the inputs with its bit pattern.
C3_OneEntryPerBitPattern ==
    Returned =>
        /\ \A i \in 1..Len(listOfCorners) : Cardinality(EntriesOf(i)) = 1
        /\ \A i, j \in 1..Len(listOfCorners) :
               (EntriesOf(i) = EntriesOf(j)) <=> (listOfCorners[i] = listOfCorners[j])
        /\ \A n, k \in 1..Len(unique_quads) :
               unique_quads[n].corners = unique_quads[k].corners => n = k
        /\ \A n \in 1..Len(unique_quads) :
               /\ \E i \in 1..Len(listOfCorners) : n \in EntriesOf(i)
               /\ unique_quads[n].count =
                      Cardinality({i \in 1..Len(listOfCorners) : n \in EntriesOf(i)})

\* the list holds 0.0 and -0.0 arrays (equal as numbers, different bytes) and
\* two identical nan arrays (unequal as numbers, same bytes)
C3_Witness ==
    /\ Returned
    /\ \E i, j \in 1..Len(listOfCorners) :
           /\ listOfCorners[i] = MkQuad(PZero)
           /\ listOfCorners[j] = MkQuad(NZero)
           /\ NumEq(listOfCorners[i][1][1], listOfCorners[j][1][1])
    /\ \E i, j \in 1..Len(listOfCorners) :
           /\ i # j
           /\ listOfCorners[i] = MkQuad(QNaN)
           /\ listOfCorners[j] = MkQuad(QNaN)
           /\ ~NumEq(listOfCorners[i][1][1], listOfCorners[j][1][1])
    /\ Len(unique_quads) = 3

(***************************************************************************)
(* Claims about get_GOESR_grid.                                            *)
(***************************************************************************)
ValidRequest(r) ==
    /\ r.position \in Positions
    /\ r.view \in Views
    /\ r.resolution \in {"0.5", "1.0", "2.0", "4.0", "8.0", "10.0", "100.0"}

GridReturned == g_pc = "called" /\ g_err.type = "none"

\* C5: for every valid (position, sector, resolution) the returned pixel
\* counts are the truncated quotients floor(span / resolution), never the
\* rounded ones, and full-disk east at '2.0' gives 0.303744 / 56e-6 = 5424
\* in each direction.
C5_PixelsAreFloor ==
    /\ (g_pc = "called" /\ ValidRequest(g_req)) => g_err.type = "none"
    /\ GridReturned =>
           /\ g_ret["pixels_EW"] * g_ret["resolution"] <= g_ret["span_EW"]
           /\ g_ret["span_EW"] < (g_ret["pixels_EW"] + 1) * g_ret["resolution"]
           /\ g_ret["pixels_NS"] * g_ret["resolution"] <= g_ret["span_NS"]
           /\ g_ret["span_NS"] < (g_ret["pixels_NS"] + 1) * g_ret["resolution"]
           /\ g_req = [position |-> "east", view |-> "full", resolution |-> "2.0"] =>
                  /\ g_ret["span_EW"] = 303744
                  /\ g_ret["resolution"] = 56
                  /\ g_ret["pixels_EW"] = 5424
                  /\ g_ret["pixels_NS"] = 5424

\* a full-disk grid whose quotient is not whole (303744 / 280 = 1084.8) was
\* returned truncated
C5_Witness ==
    /\ GridReturned
    /\ g_req = [position |-> "east", view |-> "full", resolution |-> "10.0"]
    /\ g_ret["pixels_EW"] = 1084
    /\ g_ret["pixels_EW"] * g_ret["resolution"] < g_ret["span_EW"]

\* C6 as stated: an invalid request fails with an InvalidConfiguration error
\* that names the invalid axis, and nothing else is raised.
C6_AsStated ==
    g_pc = "called" =>
        IF ValidRequest(g_req)
        THEN g_err.type = "none"
        ELSE /\ g_err.type = "InvalidConfiguration"
             /\ g_err.args # <<>>

\* C6 amended: an invalid request fails, before any dict is built, with a
\* bare AssertionError (no message) raised by the first failing of the three
\* asserts, taken in the order position, view, resolution; with assertions
\* disabled (python -O) it fails with the KeyError of the failed table
\* lookup, naming the missing key.  A valid request raises nothing.
C6_AssertionOrKeyError ==
    g_pc = "called" =>
        IF ValidRequest(g_req)
        THEN g_err.type = "none"
        ELSE /\ g_ret = <<>>
             /\ asserts_on =>
                    /\ g_err.type = "AssertionError"
                    /\ g_err.args = <<>>
                    /\ g_err.line = (IF g_req.position \notin Positions THEN 161
                                     ELSE IF g_req.view \notin Views THEN 162 ELSE 163)
             /\ ~asserts_on =>
                    /\ g_err.type = "KeyError"
                    /\ g_err.args =
                           (IF g_req.position \in Positions /\ g_req.view \in Views
                            THEN <<g_req.resolution>>
                            ELSE <<GlobalName(g_req.position, g_req.view)>>)

\* a request with only the resolution invalid has been refused by the third assert
C6_Witness ==
    /\ g_pc = "called"
    /\ asserts_on
    /\ g_req = [position |-> "west", view |-> "conus", resolution |-> "3.0"]
    /\ g_err.type = "AssertionError"
    /\ g_err.line = 163

(***************************************************************************)
(* Claims about quads_from_corner_lookup.                                  *)
(***************************************************************************)
\* the footprint of event e resolved on its own, with the arguments of the call
AloneQuad(e) ==
    quads_from_corner_lookup(g_lons, g_lats, corner_pts, <<p_lon[e]>>, <<p_lat[e]>>,
                             q_args.nadir_lon, q_args.inflate, q_args.extrapolate,
                             qhull_diag, nn_tie).quads[1]

\* the largest corner offset of the sample lookup tables
MaxOffset == 2 * Cell

Near(a, centre, reach) ==
    IsNaN(a) \/ (a.v - centre <= reach /\ centre - a.v <= reach)

\* C7: quads_from_corner_lookup returns one footprint per input event, in the
\* order of the events (footprint e is the one event e gets on its own, and
\* lies around event e), each of 4 corners of 2 coordinates.
C7_OnePerEventInOrder ==
    (q_calls >= 1 /\ q_err = "none") =>
        /\ Len(quads) = Len(p_lon)
        /\ \A e \in 1..Len(p_lon) :
               /\ Len(quads[e]) = 4
               /\ \A ci \in 1..4 :
                      /\ Len(quads[e][ci]) = 2
                      /\ Near(quads[e][ci][1], p_lon[e], MaxOffset * q_args.inflate)
                      /\ Near(quads[e][ci][2], p_lat[e], MaxOffset * q_args.inflate)
               /\ quads[e] = AloneQuad(e)

\* two different events were resolved to two different footprints
C7_Witness ==
    /\ q_calls >= 1
    /\ q_err = "none"
    /\ Len(p_lon) = 2
    /\ <<p_lon[1], p_lat[1]>> # <<p_lon[2], p_lat[2]>>
    /\ quads[1] # quads[2]
    /\ quads[1] = AloneQuad(1)

AllFinite(q) ==
    \A e \in 1..Len(q) : \A ci \in 1..Len(q[e]) : \A k \in 1..Len(q[e][ci]) :
        ~IsNaN(q[e][ci][k])

\* event e lies outside the convex hull of the (shifted) lookup lattice
OutsideHull(e) ==
    CellsHolding(ShiftLons(g_lons, q_args.nadir_lon).lon_shift, g_lats,
                 <<p_lon[e], p_lat[e]>>) = {}

\* C8 as stated: for any non-empty event list and well-formed lookup table
\* every corner of every returned footprint is finite.
C8_AsStated ==
    q_calls >= 1 => AllFinite(quads)

\* C8 amended: when the call leaves extrapolate at True, its default, every
\* corner of every returned footprint is finite, also for events outside the
\* lookup table's convex hull.
C8_FiniteWhenExtrapolating ==
    (q_calls >= 1 /\ q_args.extrapolate) => AllFinite(quads)

\* an event outside the hull was given finite corners by extrapolation
C8_Witness ==
    /\ q_calls >= 1
    /\ q_err = "none"
    /\ q_args.extrapolate
    /\ \E e \in 1..Len(p_lon) : OutsideHull(e) /\ AllFinite(<<quads[e]>>)

\* C9: resolving the same events again with the same lookup table and the
\* same inflate returns the same array, bit for bit.
C9_SecondCallSameResult ==
    q_calls >= 2 => quads = q_prev

\* a second call, with a shifted lattice and an extrapolated event, has
\* returned what the first returned
C9_Witness ==
    /\ q_calls = 2
    /\ q_err = "none"
    /\ q_args.nadir_lon # 0
    /\ q_args.extrapolate
    /\ \E e \in 1..Len(p_lon) : OutsideHull(e)
    /\ \E e \in 1..Len(p_lon) : ~OutsideHull(e)
    /\ quads = q_prev

(***************************************************************************)
(* Claims about scan_to_geod and geod_to_scan.                             *)
(***************************************************************************)
\* two finite floats differ by at most 1e-4 (degrees)
Close(a, b) ==
    /\ a.k = "fin" /\ b.k = "fin"
    /\ \E d \in {Sub(Dec(1, 4), Abs(Sub(a, b)))} : d.m = 0 \/ d.s = 1

\* C4: for every (lat, lon) of the grid over the visible disk, scan_to_geod
\* applied to the pair geod_to_scan(lat, lon) returned gives (lat, lon) back
\* to within 1e-4 degrees in both coordinates.
C4_RoundTrip ==
    t_pc = "back" /\ t_arg \in GeodGrid
        => Close(t_back[1], t_arg[1]) /\ Close(t_back[2], t_arg[2])

\* a float a call can return: a finite number, NaN or an infinity
IsNumber(a) == a.k \in {"fin", "nan", "inf"}

\* C10: no call of scan_to_geod or geod_to_scan on a pair of floats raises:
\* each returns a pair of numbers, NaN and the infinities included.
C10_NeverRaises ==
    /\ t_exc = "none"
    /\ t_pc \in {"returned", "back"} => IsNumber(t_ret[1]) /\ IsNumber(t_ret[2])
    /\ t_pc = "back" => IsNumber(t_back[1]) /\ IsNumber(t_back[2])

\* scan_to_geod was called with an infinite angle y and returned the pair
\* (NaN, NaN) instead of raising
C10_Witness ==
    /\ t_pc = "returned"
    /\ t_exc = "none"
    /\ t_fn = "scan_to_geod"
    /\ t_arg[1].k = "inf"
    /\ t_ret[1].k = "nan" /\ t_ret[2].k = "nan"

\* the square root in _calc_rs is taken of a negative discriminant when
\* scan_to_geod is called with the finite angles (y, x)
NegativeDiscriminant(y, x) ==
    \E a \in {_calc_a(x, y, FromInt(6378137), Add(FromInt(6356752), Dec(31414, 5)))} :
    \E b \in {_calc_b(x, y, FromInt(42164160))} :
    \E c \in {_calc_c(FromInt(42164160), FromInt(6378137))} :
    \E disc \in {Sub(Sq(b), Mul(Mul(FromInt(4), a), c))} :
        disc.k = "fin" /\ disc.m # 0 /\ disc.s = -1

\* r_s as the fallback path of _calc_rs computes it:
\* (-b - sqrt(abs(b**2 - 4*a*c))) / (2*a)
FallbackRs(y, x) ==
    CHOOSE r_s \in
      {Div(Sub(Neg(b), sqrt(Abs(Sub(Sq(b), Mul(Mul(FromInt(4), a), c))))), Mul(FromInt(2), a)) :
         a \in {_calc_a(x, y, FromInt(6378137), Add(FromInt(6356752), Dec(31414, 5)))},
         b \in {_calc_b(x, y, FromInt(42164160))},
         c \in {_calc_c(FromInt(42164160), FromInt(6378137))}} : TRUE

\* r_s as scan_to_geod(y, x) gets it from _calc_rs
CodeRs(y, x) ==
    CHOOSE r_s \in
      {_calc_rs(a, b, c) :
         a \in {_calc_a(x, y, FromInt(6378137), Add(FromInt(6356752), Dec(31414, 5)))},
         b \in {_calc_b(x, y, FromInt(42164160))},
         c \in {_calc_c(FromInt(42164160), FromInt(6378137))}} : TRUE

\* C11: when the discriminant b^2 - 4ac in scan_to_geod is negative, r_s is
\* the value of the fallback path, computed from the square root of the
\* discriminant's absolute value: a finite distance, not NaN and no failure.
C11_AbsFallback ==
    (/\ t_fn = "scan_to_geod" /\ t_pc = "returned"
     /\ t_arg[1].k = "fin" /\ t_arg[2].k = "fin"
     /\ NegativeDiscriminant(t_arg[1], t_arg[2]))
        => /\ t_exc = "none"
           /\ CodeRs(t_arg[1], t_arg[2]) = FallbackRs(t_arg[1], t_arg[2])

\* the three nadir points on the equator: east -75, west -137, test -89.5
NadirPoints ==
    {<<Fin(1, 0, 0), FromInt(-75)>>, <<Fin(1, 0, 0), FromInt(-137)>>,
     <<Fin(1, 0, 0), Neg(Dec(895, 1))>>}

\* C12: for each position, geod_to_scan of (lat 0, lon = the position's nadir
\* longitude) is (0, 0), and scan_to_geod(0, 0) is (0, that nadir longitude).
C12_OriginPerPosition ==
    /\ (t_fn = "geod_to_scan" /\ t_pc = "returned" /\ t_arg \in NadirPoints)
           => Close(t_ret[1], Fin(1, 0, 0)) /\ Close(t_ret[2], Fin(1, 0, 0))
    /\ (t_fn = "scan_to_geod" /\ t_pc = "returned" /\ t_arg = <<Fin(1, 0, 0), Fin(1, 0, 0)>>)
           => \A p \in NadirPoints : Close(t_ret[1], p[1]) /\ Close(t_ret[2], p[2])

(***************************************************************************)
(* Claims about the catalog entries returned by get_GOESR_grid.            *)
(***************************************************************************)
HasImageBounds(d) == "y_img_bounds" \in DOMAIN d /\ "x_img_bounds" \in DOMAIN d
HasNoImageBounds(d) == "y_img_bounds" \notin DOMAIN d /\ "x_img_bounds" \notin DOMAIN d

\* C13: the dict returned for a position and view carries the image bounds
\* y_img_bounds {n, s} and x_img_bounds {w, e} exactly when the position is
\* east and the view is full or conus; every other returned dict has neither
\* key.
C13_BoundsOnlyEastFullConus ==
    GridReturned =>
        IF g_req.position = "east" /\ g_req.view \in {"full", "conus"}
        THEN /\ HasImageBounds(g_ret)
             /\ DOMAIN heap[g_ret["y_img_bounds"].ref] = {"n", "s"}
             /\ DOMAIN heap[g_ret["x_img_bounds"].ref] = {"w", "e"}
        ELSE HasNoImageBounds(g_ret)

\* the east conus grid was returned with its bounds (north edge 0.12824 rad)
C13_Witness ==
    /\ GridReturned
    /\ g_req.position = "east" /\ g_req.view = "conus"
    /\ HasImageBounds(g_ret)
    /\ heap[g_ret["y_img_bounds"].ref].n = 128240

\* C14 as stated: a returned full-disk or mesoscale dict has center_EW = 0
\* and center_NS = 0.
C14_AsStated ==
    (GridReturned /\ g_req.view \in {"full", "meso"}) =>
        /\ "center_EW" \in DOMAIN g_ret /\ g_ret["center_EW"] = 0
        /\ "center_NS" \in DOMAIN g_ret /\ g_ret["center_NS"] = 0

\* C14 amended: a returned full-disk dict has center_EW = 0 and
\* center_NS = 0; a returned mesoscale dict has no center_EW and no
\* center_NS key at all.
C14_FullCenteredMesoWithoutCenter ==
    /\ (GridReturned /\ g_req.view = "full") =>
           /\ "center_EW" \in DOMAIN g_ret /\ g_ret["center_EW"] = 0
           /\ "center_NS" \in DOMAIN g_ret /\ g_ret["center_NS"] = 0
    /\ (GridReturned /\ g_req.view = "meso") =>
           /\ "center_EW" \notin DOMAIN g_ret
           /\ "center_NS" \notin DOMAIN g_ret

\* a mesoscale dict was returned, with its spans and without center keys
C14_Witness ==
    /\ GridReturned
    /\ g_req.view = "meso"
    /\ g_ret["span_EW"] = 28000
    /\ "center_EW" \notin DOMAIN g_ret

\* C15: each of the 3 x 3 x 7 combinations of position, view and resolution
\* is served without error, and the returned nadir_lon is the one of the
\* position named in the call (east -75.0, west -137.0, test -89.5).
C15_AllCombinationsServed ==
    (g_pc = "called" /\ ValidRequest(g_req)) =>
        /\ g_err = NoErr
        /\ g_ret["nadir_lon"] = (CASE g_req.position = "east" -> -750
                                   [] g_req.position = "west" -> -1370
                                   [] g_req.position = "test" -> -895)
        /\ g_ret["resolution"] = (CASE g_req.resolution = "0.5" -> 14
                                    [] g_req.resolution = "1.0" -> 28
                                    [] g_req.resolution = "2.0" -> 56
                                    [] g_req.resolution = "4.0" -> 112
                                    [] g_req.resolution = "8.0" -> 224
                                    [] g_req.resolution = "10.0" -> 280
                                    [] g_req.resolution = "100.0" -> 2800)

\* the test position was served its mesoscale grid at the coarsest resolution
C15_Witness ==
    /\ g_pc = "called"
    /\ g_req = [position |-> "test", view |-> "meso", resolution |-> "100.0"]
    /\ g_err = NoErr
    /\ g_ret["nadir_lon"] = -895
    /\ g_ret["pixels_EW"] = 10

\* the keys get_GOESR_grid adds to the dict it returns
AddedKeys == {"resolution", "pixels_EW", "pixels_NS", "nadir_lon"}

\* C18: get_GOESR_grid leaves the module-level catalog as it was at import
\* (no resolution, pixel-count or nadir key appears in any catalog entry),
\* and a call with the arguments of the call before it returns an equal
\* result.
C18_CatalogReadOnly ==
    /\ catalog = ImportGlobals
    /\ heap = ImportHeap
    /\ \A name \in DOMAIN catalog :
           name \in {GlobalName(p, v) : p \in Positions, v \in Views} =>
               DOMAIN catalog[name] \cap AddedKeys = {}
    /\ (g_pc = "called" /\ g_prev # <<>>) => (g_ret = g_prev[1] /\ g_err = g_prev[2])

\* a grid was returned a second time, with its four added keys, while the
\* catalog entry it was copied from has none of them
C18_Witness ==
    /\ GridReturned
    /\ g_prev # <<>>
    /\ AddedKeys \subseteq DOMAIN g_ret
    /\ DOMAIN catalog[GlobalName(g_req.position, g_req.view)] \cap AddedKeys = {}
    /\ g_req = [position |-> "west", view |-> "conus", resolution |-> "4.0"]

(***************************************************************************)
(* Claims about the failure and the frame of quads_from_corner_lookup.     *)
(***************************************************************************)
\* the lookup table has fewer than three distinct points, or all its points
\* on one line: too few to triangulate
DegenerateTable ==
    \/ Cardinality({<<g_lons[i][j], g_lats[i][j]>> : i \in LutIdx, j \in LutIdx}) < 3
    \/ \E i \in LutIdx, j \in LutIdx :
           \A k \in LutIdx, l \in LutIdx : g_lats[k][l] = g_lats[i][j]

\* C16 as stated: with a lookup table of too few distinct points the call
\* fails as a whole with a DegenerateLookupTable error and returns nothing.
C16_AsStated ==
    (q_calls >= 1 /\ DegenerateTable) =>
        /\ q_err = "DegenerateLookupTable"
        /\ quads = <<>>

\* C16 amended: with a lookup table of too few distinct points the call
\* fails as a whole, whatever the events, with the QhullError raised by the
\* construction of the first interpolator; it returns no array, neither a
\* partial nor a per-event one.  With a lookup table that spans the plane it
\* raises nothing.
C16_QhullErrorFailsWhole ==
    q_calls >= 1 =>
        IF DegenerateTable
        THEN /\ q_err = "QhullError"
             /\ quads = <<>>
        ELSE /\ q_err = "none"
             /\ Len(quads) = Len(p_lon)

\* a call with two events and a lookup table collapsed onto one line has
\* failed, twice, without a result
C16_Witness ==
    /\ q_calls = 2
    /\ Len(p_lon) = 2
    /\ g_lons = SampleLons /\ g_lats = CollapsedAxis
    /\ q_err = "QhullError"
    /\ quads = <<>>

\* C19: quads_from_corner_lookup writes to none of its inputs: the lookup
\* longitudes and latitudes, the corner offsets and the event coordinates
\* have after each call the values they had before it, also when the
\* longitudes were shifted by nadir_lon and when extrapolation ran.
C19_InputsUntouched ==
    [][/\ g_lons' = g_lons
       /\ g_lats' = g_lats
       /\ corner_pts' = corner_pts
       /\ p_lon' = p_lon
       /\ p_lat' = p_lat]_vars

\* a call that shifted the longitudes and extrapolated an event has returned
\* and the lookup longitudes are the ones read from the file
C19_Witness ==
    /\ q_calls >= 1
    /\ q_err = "none"
    /\ q_args.nadir_lon = Cell
    /\ q_args.extrapolate
    /\ \E e \in 1..Len(p_lon) : OutsideHull(e)
    /\ g_lons = SampleLons
    /\ g_lats = SampleLats

(***************************************************************************)
(* Claims about the order of the identifiers count() assigns.              *)
(***************************************************************************)
\* the position in the input list at which key k is first seen
FirstSeen(k) ==
    CHOOSE i \in 1..Len(listOfCorners) :
        /\ Keys(listOfCorners)[i] = k
        /\ \A j \in 1..(i - 1) : Keys(listOfCorners)[j] # k

\* C17: count() numbers the unique footprints in the order in which they
\* are first seen in its input: of two returned objects the one whose
\* footprint is first seen earlier has the smaller identifier (it is the
\* earlier element, and the n-th element has the zero-padded id n), so the
\* ids are a function of the input.
C17_FirstSeenOrder ==
    cnt_pc = "counted" =>
        \A m, n \in 1..Len(unique_quads) :
            FirstSeen(unique_quads[m].corners) < FirstSeen(unique_quads[n].corners)
                => m < n

(***************************************************************************)
(* Claims about the worked examples of proj_utils.py.                      *)
(***************************************************************************)
\* a and b are finite and differ by at most tol
Within(a, b, tol) ==
    /\ a.k = "fin" /\ b.k = "fin"
    /\ \E d \in {Sub(tol, Abs(Sub(a, b)))} : d.m = 0 \/ d.s = 1

\* half a unit of the 4th and of the 3rd decimal place
Tol4 == Dec(5, 5)
Tol3 == Dec(5, 4)

\* the worked examples: function, arguments, documented result, tolerance
WorkedExamples ==
    { <<"geod_to_scan", <<Dec(480563, 4), Neg(Dec(701242, 4))>>,
        <<Dec(12390, 5), Dec(950, 5)>>, Tol4>>,
      <<"geod_to_scan", <<Dec(33943546, 6), Neg(Dec(8452599, 5))>>,
        <<Dec(9557, 5), Neg(Dec(2361, 5))>>, Tol4>>,
      <<"scan_to_geod", <<Dec(11088, 5), Neg(Dec(728, 4))>>,
        <<Dec(42324, 3), Neg(Dec(111599, 3))>>, Tol3>>,
      <<"scan_to_geod", <<Dec(11088, 5), Neg(Dec(448, 4))>>,
        <<Dec(41398, 3), Neg(Dec(95779, 3))>>, Tol3>>,
      <<"scan_to_geod", <<Dec(8288, 5), Neg(Dec(728, 4))>>,
        <<Dec(29264, 3), Neg(Dec(104362, 3))>>, Tol3>>,
      <<"scan_to_geod", <<Dec(8288, 5), Neg(Dec(448, 4))>>,
        <<Dec(28846, 3), Neg(Dec(92234, 3))>>, Tol3>> }

\* C20: the transforms reproduce the worked examples of the module
\* docstring: geod_to_scan(48.0563, -70.1242) = (0.12390, 0.00950) and
\* geod_to_scan(33.943546, -84.52599) = (0.09557, -0.02361) to 4 decimals,
\* and scan_to_geod at the four corners (0.11088 | 0.08288, -0.0728 |
\* -0.0448) gives (42.324, -111.599), (41.398, -95.779), (29.264, -104.362)
\* and (28.846, -92.234) to 3 decimals.
C20_WorkedExamples ==
    \A ex \in WorkedExamples :
        (t_pc \in {"returned", "back"} /\ t_fn = ex[1] /\ t_arg = ex[2]) =>
            /\ t_exc = "none"
            /\ Within(t_ret[1], ex[3][1], ex[4])
            /\ Within(t_ret[2], ex[3][2], ex[4])

\* the second geod_to_scan example has returned its documented pair
C20_Witness ==
    /\ t_pc = "returned"
    /\ t_fn = "geod_to_scan"
    /\ t_arg = <<Dec(33943546, 6), Neg(Dec(8452599, 5))>>
    /\ Within(t_ret[1], Dec(9557, 5), Tol4)
    /\ Within(t_ret[2], Neg(Dec(2361, 5)), Tol4)

(***************************************************************************)
(* Claims about the quadratic coefficient a of scan_to_geod.               *)
(***************************************************************************)
\* sin^2(x) + cos^2(x) * [cos^2(y) + (r_eq / r_pol)^2 * sin^2(y)]
StatedA(y, x) ==
    CHOOSE a \in {Add(Sq(sin(x)),
                      Mul(Sq(cos(x)),
                          Add(Sq(cos(y)), Mul(Sq(Div(r_eq, r_pol)), Sq(sin(y))))))
                    : r_eq \in {FromInt(6378137)},
                      r_pol \in {Add(FromInt(6356752), Dec(31414, 5))}} : TRUE

\* the coefficient a computed on line 95 for the scan angles (y, x)
CodeA(y, x) ==
    CHOOSE a \in {_calc_a(x, y, r_eq, r_pol)
                    : r_eq \in {FromInt(6378137)},
                      r_pol \in {Add(FromInt(6356752), Dec(31414, 5))}} : TRUE

\* C24: for every pair of finite scan angles (y, x) given to scan_to_geod,
\* the coefficient a it uses equals
\* sin^2(x) + cos^2(x) * [cos^2(y) + (r_eq / r_pol)^2 * sin^2(y)]
\* up to rounding (1e-7, a hundred times the rounding of the arithmetic).
C24_CoefficientA ==
    (t_fn = "scan_to_geod" /\ t_pc = "returned"
        /\ t_arg[1].k = "fin" /\ t_arg[2].k = "fin") =>
        \E d \in {Sub(Dec(1, 7), Abs(Sub(CodeA(t_arg[1], t_arg[2]),
                                         StatedA(t_arg[1], t_arg[2]))))} :
            d.k = "fin" /\ (d.m = 0 \/ d.s = 1)

(***************************************************************************)
(* Claims about the extrapolation step of quads_from_corner_lookup.        *)
(***************************************************************************)
AllNaN(q) ==
    \A ci \in 1..Len(q) : \A k \in 1..Len(q[ci]) : IsNaN(q[ci][k])

\* the footprint event e gets on its own from linear interpolation alone
LinearQuad(e) ==
    quads_from_corner_lookup(g_lons, g_lats, corner_pts, <<p_lon[e]>>, <<p_lat[e]>>,
                             q_args.nadir_lon, q_args.inflate, FALSE,
                             qhull_diag, nn_tie).quads[1]

\* the footprint event e gets on its own when extrapolation is asked for
ExtrapolatedQuad(e) ==
    quads_from_corner_lookup(g_lons, g_lats, corner_pts, <<p_lon[e]>>, <<p_lat[e]>>,
                             q_args.nadir_lon, q_args.inflate, TRUE,
                             qhull_diag, nn_tie).quads[1]

\* C25 as stated: extrapolation is unconditional; in no call, whatever its
\* arguments, does an event outside the lookup table's convex hull keep a
\* NaN offset.
C25_AsStated ==
    (q_calls >= 1 /\ q_err = "none") =>
        \A e \in 1..Len(p_lon) : OutsideHull(e) => AllFinite(<<quads[e]>>)

\* C25 amended: extrapolation is governed by the extrapolate argument.  With
\* extrapolate True, the default, an event outside the convex hull gets the
\* nearest-neighbour offsets (no NaN corner); with extrapolate False it
\* keeps its NaN offsets and all its corners are NaN.
C25_ExtrapolationByArgument ==
    (q_calls >= 1 /\ q_err = "none") =>
        \A e \in 1..Len(p_lon) :
            OutsideHull(e) =>
                IF q_args.extrapolate
                THEN AllFinite(<<quads[e]>>) /\ quads[e] = ExtrapolatedQuad(e)
                ELSE AllNaN(quads[e])

\* a call with extrapolate False has returned NaN corners for an event
\* outside the hull
C25_Witness ==
    /\ q_calls >= 1
    /\ q_err = "none"
    /\ ~q_args.extrapolate
    /\ \E e \in 1..Len(p_lon) : OutsideHull(e) /\ AllNaN(quads[e])

\* C26: nearest-neighbour extrapolation replaces only the offsets linear
\* interpolation returned as NaN: every event inside the lookup table's
\* convex hull has the footprint linear interpolation alone gives it,
\* whether or not other events of the batch were extrapolated.
C26_InsideEventsKeepLinear ==
    (q_calls >= 1 /\ q_err = "none") =>
        \A e \in 1..Len(p_lon) :
            ~OutsideHull(e) => (quads[e] = LinearQuad(e) /\ AllFinite(<<quads[e]>>))

\* a batch of an inside and an outside event was resolved with
\* extrapolation: the inside event has its linear footprint, which differs
\* from the extrapolated footprint of the other
C26_Witness ==
    /\ q_calls >= 1
    /\ q_err = "none"
    /\ q_args.extrapolate
    /\ Len(p_lon) = 2
    /\ \E e, o \in 1..2 :
           /\ ~OutsideHull(e)
           /\ OutsideHull(o)
           /\ quads[e] = LinearQuad(e)
           /\ quads[o] # LinearQuad(o)

(***************************************************************************)
(* Claims about the dicts get_GOESR_grid hands out and the image bounds.   *)
(***************************************************************************)
\* the content of dict d with its image bounds read through heap h
Content(d, h) ==
    [k \in DOMAIN d |->
        IF k \in {"y_img_bounds", "x_img_bounds"} THEN h[d[k].ref] ELSE d[k]]

\* what get_GOESR_grid returns for request r in a freshly imported module
FreshContent(r) ==
    Content(get_GOESR_grid(r.position, r.view, r.resolution,
                           ImportGlobals, asserts_on)[1], ImportHeap)

\* C27: changing a dict returned by get_GOESR_grid, the entries of its
\* image bounds included, does not change what a later call returns: every
\* dict a call returns has the content the same call returns in a freshly
\* imported module.
C27_ReturnedDictsIndependent ==
    (g_pc = "called" /\ g_err = NoErr) => Content(g_ret, heap) = FreshContent(g_req)

Done(fn) == s_pc = "done" /\ s_fn = fn

\* the requested date of a command line, as the input format reads it
Requested(cmd_args) == strptime(cmd_args.date, <<"Y", "m", "d", "H">>)

\* the valid analysis hours of a non-seasonal period
ValidHours(period) == IF period = 6 THEN {0, 6, 12, 18} ELSE {0, 12}

\* C21: for a non-seasonal period (6, 24, 48, 72) and a valid date,
\* adjust_date returns the requested day with the hour replaced by the
\* latest valid analysis hour not after the requested one (00/06/12/18 for
\* period 6, 00/12 for the others); a request on a valid hour comes back
\* unchanged.
C21_LatestValidHour ==
    (Done("adjust_date") /\ s_arg.period # 99 /\ Requested(s_arg).exc = "none")
        => /\ s_ret.exc = "none"
           /\ s_ret.year = Requested(s_arg).year
           /\ s_ret.month = Requested(s_arg).month
           /\ s_ret.day = Requested(s_arg).day
           /\ s_ret.minute = Requested(s_arg).minute
           /\ s_ret.hour \in ValidHours(s_arg.period)
           /\ s_ret.hour <= Requested(s_arg).hour
           /\ \A v \in ValidHours(s_arg.period) :
                  v <= Requested(s_arg).hour => v <= s_ret.hour
           /\ Requested(s_arg).hour \in ValidHours(s_arg.period)
                  => s_ret = Requested(s_arg)

\* a six-hourly request at 15:00 came back at 12:00 of the same day
C21_Witness ==
    /\ Done("adjust_date")
    /\ s_arg.period = 6
    /\ s_arg.date = <<"2019", "12", "15", "15">>
    /\ s_ret = datetime(2019, 12, 15, 12, 0)

\* the calendar day before a date
PreviousDay(date) == [AddHours([date EXCEPT !.hour = 0], -24) EXCEPT !.hour = date.hour]

\* C22: for the seasonal period (99) and every valid date, adjust_date
\* returns 12:00 of the requested day when the requested hour is 12 or
\* later and 12:00 of the previous calendar day when it is before 12.
C22_SeasonalNoon ==
    (Done("adjust_date") /\ s_arg.period = 99 /\ Requested(s_arg).exc = "none")
        => s_ret = IF Requested(s_arg).hour >= 12
                   THEN [Requested(s_arg) EXCEPT !.hour = 12]
                   ELSE [PreviousDay(Requested(s_arg)) EXCEPT !.hour = 12]

\* the start year of the winter season (30 September 12z to the next)
\* that contains a date
SeasonStart(date) ==
    IF \/ date.month > 9
       \/ date.month = 9 /\ date.day = 30 /\ date.hour >= 12
    THEN date.year
    ELSE date.year - 1

\* C23: for the seasonal period, parse_fname returns
\* 'sfav2_CONUS_<Y>093012_to_<end>.<type>' with <end> the adjusted end date
\* as YYYYMMDDHH and <Y> the start year of the winter season containing it,
\* so that the named interval runs from 30 September 12z to the end date
\* (the type is the requested one, netCDF where grib was asked for).
C23_SeasonFileName ==
    (Done("parse_fname") /\ s_arg.period = 99 /\ adjust_date(s_arg).exc = "none")
        => /\ s_ret.exc = "none"
           /\ s_ret.f_name =
                "sfav2_CONUS_" \o Str(SeasonStart(adjust_date(s_arg))) \o "093012_to_"
                \o Str(adjust_date(s_arg).year)
                \o ZFill(Str(adjust_date(s_arg).month), 2)
                \o ZFill(Str(adjust_date(s_arg).day), 2)
                \o ZFill(Str(adjust_date(s_arg).hour), 2)
                \o "." \o (IF s_arg.f_type = "grib" THEN "nc" ELSE s_arg.f_type)

\* the resolutions get_fixed_grid_edges accepts
ValidGridRes == {"0.5", "1.0", "2.0", "4.0", "10.0"}

\* C29: get_fixed_grid_edges called with a grid_res outside
\* {'0.5','1.0','2.0','4.0','10.0'} raises ValueError, and no other
\* exception, before it computes any edge.
C29_InvalidResolutionValueError ==
    (Done("get_fixed_grid_edges") /\ s_arg[3] \notin ValidGridRes)
        => s_ret.exc = "ValueError" /\ s_ret.x_edges = <<>>

\* a date string of calc_date_chunks as a datetime
ChunkTime(date_string) == strptime(date_string, <<"m", "d", "Y", "H", "M">>)

\* C30: for every start <= end, calc_date_chunks returns a non-empty list of
\* chunks that tile the period: the first begins at start, each begins where
\* the one before ended, the last ends at end, and every chunk is longer
\* than zero and at most 6 hours long.
C30_ChunksTile ==
    (/\ Done("calc_date_chunks")
     /\ ChunkTime(s_arg[1]).exc = "none" /\ ChunkTime(s_arg[2]).exc = "none"
     /\ Key(ChunkTime(s_arg[1])) <= Key(ChunkTime(s_arg[2])))
        => /\ s_ret.exc = "none"
           /\ s_ret.chunks # <<>>
           /\ ChunkTime(s_ret.chunks[1][1]) = ChunkTime(s_arg[1])
           /\ ChunkTime(s_ret.chunks[Len(s_ret.chunks)][2]) = ChunkTime(s_arg[2])
           /\ \A i \in 2..Len(s_ret.chunks) :
                  s_ret.chunks[i][1] = s_ret.chunks[i - 1][2]
           /\ \A i \in 1..Len(s_ret.chunks) :
                  /\ Key(ChunkTime(s_ret.chunks[i][1])) < Key(ChunkTime(s_ret.chunks[i][2]))
                  /\ Key(ChunkTime(s_ret.chunks[i][2]))
                         <= Key(AddHours(ChunkTime(s_ret.chunks[i][1]), 6))

====
